---- MODULE Spec2Model ----
(***************************************************************************)
(* A model of gmail-label-fixer: the label hierarchy parser, the analyzer  *)
(* that aggregates the required parent labels, and the retry loop with     *)
(* exponential backoff that wraps the remote mutating calls; the conflict  *)
(* check and the dry run; the fix of all labels by renaming in place; and  *)
(* the fix of one label by creating the nested label and moving messages.  *)
(*                                                                         *)
(* Go strings are modelled as sequences of byte values, so that splitting, *)
(* joining, case conversion, substring search and the byte-wise order of   *)
(* sort.Strings are computed as the code computes them.                    *)
(***************************************************************************)
EXTENDS Integers, Sequences, FiniteSets, TLC

VARIABLES
    labelName,        \* the argument of ParseLabelHierarchy
    transformation,   \* its return value (NilTransformation for nil)
    parsePc,          \* "ready" before the call, "done" after it
    remoteLabels,     \* the labels of the account: a set of [Id, Name, Type]
    analysisPc,       \* "ready" | "analysed" | "collected"
    analysis,         \* the return value of AnalyzeLabels
    parents,          \* the return value of the exported GetAllRequiredParents
    maxRetries,       \* Config.MaxRetries
    opFailN,          \* the operation fails retryably this many times first
    opFinal,          \* and then returns this (NoError, or a terminal error)
    retryPc,          \* position in retryWithBackoff
    attempt,          \* the loop variable of retryWithBackoff
    invocations,      \* calls of operation() made so far
    sleeps,           \* backoff waits made so far
    delay,            \* the duration of the last backoff wait, in ms
    lastErr,          \* lastErr of retryWithBackoff
    lastRetryable,    \* isRetryableError(lastErr) as the loop saw it
    retryResult,      \* the return value of retryWithBackoff
    opErr,            \* what the last call of operation() returned
    calls,            \* the kinds of remote calls issued so far
    conflicts,        \* the return value of CheckConflicts
    dryRunResult,     \* the return value of DryRun
    rateLimitDelay,   \* Config.RateLimitDelay, in ms
    fixPc,            \* "ready" | "running" | "done": position in FixAllLabels
    fixQueue,         \* the transformations FixAllLabels has still to process
    lastFix,          \* what the last call of processTransformation did
    processed,        \* the counter `processed` of FixAllLabels
    fixReturn,        \* the return value of FixAllLabels or FixLabel
    fixMode,          \* "none" | "all" | "label": the operation that runs
    fixName,          \* the labelName FixLabel was called with
    fixRun,           \* "once" | "first" | "again": the command is run once, or
                      \* twice and this is the first or the second run
    prevRun,          \* what the earlier run found, processed and returned
    accountBefore,    \* the labels of the account when the run began
    fixFound,         \* the transformations of the run, in the order of its loop
    attempts,         \* the calls of processTransformation made: label and failure
    runCalls,         \* the remote calls the run has issued
    labelMessages,    \* the labels each message of the account carries
    movePc,           \* "ready" | "running" | "done": position in the fix (create and move)
    moveRun,          \* what the create-and-move processTransformation did
    moveReturn,       \* the return value of FixLabel or FixAllLabels (create and move)
    moveMode,         \* "none" | "label" | "all": the operation that runs
    moveQueue,        \* the transformations FixAllLabels has still to process
    moveBefore,       \* the labels and the messages when the run began
    createLog         \* the labels the run has created, in order, with the step

parseVars == <<labelName, transformation, parsePc>>
analysisVars == <<remoteLabels, analysisPc, analysis, parents>>
retryVars == <<maxRetries, opFailN, opFinal, retryPc, attempt, invocations,
               sleeps, delay, lastErr, lastRetryable, retryResult, opErr>>
checkVars == <<calls, conflicts, dryRunResult>>
fixRunVars == <<fixMode, fixName, fixRun, prevRun, accountBefore, fixFound,
                attempts, runCalls>>
fixVars == <<rateLimitDelay, fixPc, fixQueue, lastFix, processed, fixReturn,
             fixRunVars>>
moveVars == <<labelMessages, movePc, moveRun, moveReturn, moveMode, moveQueue,
              moveBefore, createLog>>
opsVars == <<checkVars, fixVars, moveVars>>
vars == <<parseVars, analysisVars, retryVars, opsVars>>

(***************************************************************************)
(* Bounds of the model.                                                    *)
(***************************************************************************)
MaxPieces == 5
MaxLabels == 3
MaxRetriesBound == 7
MaxFailures == 8

(***************************************************************************)
(* Strings as byte sequences.                                              *)
(***************************************************************************)
Ord ==
       " " :> 32 @@ "-" :> 45 @@ "." :> 46 @@ "/" :> 47 @@ ":" :> 58 @@ "<" :> 60
    @@ ">" :> 62 @@ "0" :> 48 @@ "1" :> 49 @@ "2" :> 50 @@ "3" :> 51 @@ "4" :> 52
    @@ "5" :> 53 @@ "6" :> 54 @@ "7" :> 55 @@ "8" :> 56 @@ "9" :> 57 @@ "A" :> 65
    @@ "B" :> 66 @@ "C" :> 67 @@ "D" :> 68 @@ "E" :> 69 @@ "F" :> 70 @@ "G" :> 71
    @@ "H" :> 72 @@ "I" :> 73 @@ "J" :> 74 @@ "K" :> 75 @@ "L" :> 76 @@ "M" :> 77
    @@ "N" :> 78 @@ "O" :> 79 @@ "P" :> 80 @@ "Q" :> 81 @@ "R" :> 82 @@ "S" :> 83
    @@ "T" :> 84 @@ "U" :> 85 @@ "V" :> 86 @@ "W" :> 87 @@ "X" :> 88 @@ "Y" :> 89
    @@ "Z" :> 90 @@ "a" :> 97 @@ "b" :> 98 @@ "c" :> 99 @@ "d" :> 100 @@ "e" :> 101
    @@ "f" :> 102 @@ "g" :> 103 @@ "h" :> 104 @@ "i" :> 105 @@ "j" :> 106 @@ "k" :> 107
    @@ "l" :> 108 @@ "m" :> 109 @@ "n" :> 110 @@ "o" :> 111 @@ "p" :> 112 @@ "q" :> 113
    @@ "r" :> 114 @@ "s" :> 115 @@ "t" :> 116 @@ "u" :> 117 @@ "v" :> 118 @@ "w" :> 119
    @@ "x" :> 120 @@ "y" :> 121 @@ "z" :> 122

\* The byte sequence of a string given character by character.
B(cs) == [i \in 1..Len(cs) |-> Ord[cs[i]]]

Dot == 46
Slash == 47

\* strings.ToUpper / strings.ToLower on ASCII bytes.
UpperByte(c) == IF c >= 97 /\ c <= 122 THEN c - 32 ELSE c
LowerByte(c) == IF c >= 65 /\ c <= 90 THEN c + 32 ELSE c
ToUpper(s) == [i \in 1..Len(s) |-> UpperByte(s[i])]
ToLower(s) == [i \in 1..Len(s) |-> LowerByte(s[i])]

\* strings.Split(s, sep) for a one-byte separator: scan the bytes, closing the
\* current segment at each separator; the result always has one segment more
\* than there are separators.
RECURSIVE SplitScan(_, _, _, _, _)
SplitScan(s, sep, i, cur, acc) ==
    IF i > Len(s) THEN Append(acc, cur)
    ELSE IF s[i] = sep THEN SplitScan(s, sep, i + 1, <<>>, Append(acc, cur))
    ELSE SplitScan(s, sep, i + 1, Append(cur, s[i]), acc)

Split(s, sep) == SplitScan(s, sep, 1, <<>>, <<>>)

\* A variant that joins the parts with the flat delimiter.
RECURSIVE JoinWithFlatDelimiter(_, _)
JoinWithFlatDelimiter(parts, sep) ==
    IF Len(parts) = 0 THEN <<>>
    ELSE IF Len(parts) = 1 THEN parts[1]
    ELSE parts[1] \o <<Dot>> \o JoinWithFlatDelimiter(Tail(parts), sep)

\* strings.Join(parts, sep) for a one-byte separator.
RECURSIVE Join(_, _)
Join(parts, sep) ==
    IF Len(parts) = 0 THEN <<>>
    ELSE IF Len(parts) = 1 THEN parts[1]
    ELSE parts[1] \o <<sep>> \o Join(Tail(parts), sep)

\* strings.HasPrefix(s, p).
HasPrefix(s, p) == Len(s) >= Len(p) /\ SubSeq(s, 1, Len(p)) = p

\* strings.Contains(s, sub).
Contains(s, sub) ==
    \E i \in 1..(Len(s) - Len(sub) + 1) : SubSeq(s, i, i + Len(sub) - 1) = sub

\* The number of occurrences of byte c in s.
RECURSIVE CountByte(_, _)
CountByte(s, c) ==
    IF Len(s) = 0 THEN 0
    ELSE (IF Head(s) = c THEN 1 ELSE 0) + CountByte(Tail(s), c)

\* Go's string comparison a < b: byte-wise, a proper prefix first.
RECURSIVE StrLess(_, _)
StrLess(a, b) ==
    IF Len(b) = 0 THEN FALSE
    ELSE IF Len(a) = 0 THEN TRUE
    ELSE IF Head(a) # Head(b) THEN Head(a) < Head(b)
    ELSE StrLess(Tail(a), Tail(b))

(***************************************************************************)
(* analyzer.ParseLabelHierarchy                                            *)
(***************************************************************************)
INBOX == B(<<"I", "N", "B", "O", "X">>)

NilTransformation == [IsNil |-> TRUE]

\* for i := 1; i < len(finalParts); i++ { append(Join(finalParts[:i], "/")) }
RequiredParentsLoopInclusive(finalParts) ==
    [i \in 1..Len(finalParts) |-> Join(SubSeq(finalParts, 1, i), Slash)]

RequiredParentsLoopShifted(finalParts) ==
    [i \in 1..(Len(finalParts) - 1) |-> Join(SubSeq(finalParts, 1, i + 1), Slash)]

RequiredParentsLoop(finalParts) ==
    [i \in 1..(Len(finalParts) - 1) |-> Join(SubSeq(finalParts, 1, i), Slash)]

\* len(parts) <= 1: not a period-separated label.
NotPeriodSeparatedOffByOne(parts) == Len(parts) <= 2

NotPeriodSeparated(parts) == Len(parts) <= 1

\* len(parts) > 1 && strings.ToUpper(parts[0]) == "INBOX"
HasInboxPrefixCaseSensitive(parts) == Len(parts) > 1 /\ parts[1] = INBOX

HasInboxPrefix(parts) == Len(parts) > 1 /\ ToUpper(parts[1]) = INBOX

ParseLabelHierarchy(name) ==
    LET parts == Split(name, Dot)
        finalParts == IF HasInboxPrefix(parts) THEN Tail(parts) ELSE parts
    IN  IF NotPeriodSeparated(parts) THEN NilTransformation
        ELSE IF HasInboxPrefix(parts) /\ Len(finalParts) = 1
        THEN [IsNil |-> FALSE,
              OriginalLabel |-> name,
              OriginalID |-> "",
              HierarchyParts |-> finalParts,
              NestedStructure |-> finalParts[1],
              MessageCount |-> 0,
              RequiredParents |-> <<>>]
        ELSE [IsNil |-> FALSE,
              OriginalLabel |-> name,
              OriginalID |-> "",
              HierarchyParts |-> finalParts,
              NestedStructure |-> Join(finalParts, Slash),
              MessageCount |-> 0,
              RequiredParents |-> RequiredParentsLoop(finalParts)]

(***************************************************************************)
(* The label names the parser is applied to: every concatenation of at     *)
(* most MaxPieces pieces, so that names with empty segments, with a '/'    *)
(* inside a segment and with the INBOX prefix in either case all occur.    *)
(***************************************************************************)
Pieces == { INBOX, B(<<"I", "n", "b", "o", "x">>), B(<<"a">>), B(<<"b">>),
            <<Dot>>, <<Slash>> }

RECURSIVE NamesOfPieces(_)
NamesOfPieces(k) ==
    IF k = 0 THEN { <<>> }
    ELSE LET shorter == NamesOfPieces(k - 1)
         IN  shorter \cup { n \o p : n \in shorter, p \in Pieces }

Names == NamesOfPieces(MaxPieces)

ParseInit ==
    /\ labelName \in Names
    /\ transformation = NilTransformation
    /\ parsePc = "ready"

ParseIdle ==
    /\ labelName = <<>>
    /\ transformation = NilTransformation
    /\ parsePc = "idle"

\* One call of ParseLabelHierarchy(labelName).
Parse ==
    /\ parsePc = "ready"
    /\ transformation' = ParseLabelHierarchy(labelName)
    /\ parsePc' = "done"
    /\ UNCHANGED <<labelName, analysisVars, retryVars, opsVars>>

(***************************************************************************)
(* The remote account: gmail.Client over the labels of the account.        *)
(***************************************************************************)
\* The labels an account may hold, in the order the service lists them.
LabelPool == <<
    [Id |-> "Label_1", Name |-> B(<<"A", ".", "B">>), Type |-> "user"],
    [Id |-> "Label_2", Name |-> B(<<"A", ".", "B", ".", "C">>), Type |-> "user"],
    [Id |-> "Label_3", Name |-> B(<<"C", ".", "D">>), Type |-> "user"],
    [Id |-> "Label_4", Name |-> B(<<"I", "N", "B", "O", "X", ".", "C", ".", "E">>),
     Type |-> "user"],
    [Id |-> "Label_5", Name |-> B(<<"I", "n", "b", "o", "x", ".", "Z">>),
     Type |-> "user"],
    [Id |-> "Label_6", Name |-> B(<<"Z">>), Type |-> "user"],
    [Id |-> "INBOX", Name |-> INBOX, Type |-> "system"],
    [Id |-> "Label_8", Name |-> B(<<"A", ".", "Z">>), Type |-> "system"],
    [Id |-> "Label_9", Name |-> B(<<"A">>), Type |-> "user"],
    [Id |-> "Label_10", Name |-> B(<<"I", "N", "B", "O", "X", ".", "S", "e", "n", "t">>),
     Type |-> "user"] >>

Range(f) == { f[i] : i \in DOMAIN f }

\* The labels the service creates itself, which every account has, and those
\* a user may have created.
SystemLabels == { l \in Range(LabelPool) : l.Type = "system" }
UserLabels == { l \in Range(LabelPool) : l.Type = "user" }

\* The orders in which a Go map with the key set S may be iterated.
RECURSIVE Orders(_)
Orders(S) ==
    IF S = {} THEN { <<>> }
    ELSE UNION { { <<x>> \o o : o \in Orders(S \ {x}) } : x \in S }

\* The identities the service gives to the labels it creates.
NewIds == <<"New_1", "New_2", "New_3", "New_4", "New_5", "New_6", "New_7", "New_8">>

\* The identities of labels in the order in which the service lists them.
ListingOrder == [ i \in DOMAIN LabelPool |-> LabelPool[i].Id ] \o NewIds

\* The labels of `labels` in the order `ids` of their identities.
RECURSIVE ListLabels(_, _)
ListLabels(ids, labels) ==
    IF Len(ids) = 0 \/ labels = {} THEN <<>>
    ELSE LET here == { l \in labels : l.Id = Head(ids) }
         IN  (IF here = {} THEN <<>> ELSE << CHOOSE l \in here : TRUE >>)
             \o ListLabels(Tail(ids), labels \ here)

\* Client.GetAllLabels: the labels of the account as the service lists them,
\* under the names they have now; an account that holds labels of the pool
\* only, none renamed, is listed in the order of the pool.
GetAllLabels(labels) ==
    IF labels \subseteq Range(LabelPool)
    THEN SelectSeq(LabelPool, LAMBDA l : l \in labels)
    ELSE ListLabels(ListingOrder, labels)

\* label.Type == "user" && strings.Contains(label.Name, ".")
IsPeriodSeparated(label) == label.Type = "user" /\ Contains(label.Name, <<Dot>>)

\* Client.FindPeriodSeparatedLabels.
FindPeriodSeparatedLabels(labels) ==
    SelectSeq(GetAllLabels(labels), IsPeriodSeparated)

(***************************************************************************)
(* analyzer.GetAllRequiredParents and analyzer.AnalyzeLabels               *)
(***************************************************************************)
\* The first loop of GetAllRequiredParents over the transformations in the
\* order `order` of their keys: parentsSet[parent] = true for every parent.
RECURSIVE CollectParents(_, _, _)
CollectParents(transformations, order, parentsSet) ==
    IF Len(order) = 0 THEN parentsSet
    ELSE CollectParents(transformations, Tail(order),
             parentsSet \cup Range(transformations[Head(order)].RequiredParents))

\* A variant that appends each parent to the result as it is met, with no set.
RECURSIVE AppendParents(_, _)
AppendParents(transformations, order) ==
    IF Len(order) = 0 THEN <<>>
    ELSE transformations[Head(order)].RequiredParents
             \o AppendParents(transformations, Tail(order))

GetAllRequiredParentsNoSet(transformations) ==
    { AppendParents(transformations, order) : order \in Orders(DOMAIN transformations) }

\* Every value GetAllRequiredParents may return: both loops range over a Go
\* map, whose iteration order is not specified.
GetAllRequiredParents(transformations) ==
    UNION { Orders(CollectParents(transformations, order, {})) :
            order \in Orders(DOMAIN transformations) }

\* sort.Strings: insertion into an ordered sequence by Go's string order.
RECURSIVE InsertSorted(_, _)
InsertSorted(sorted, s) ==
    IF Len(sorted) = 0 THEN <<s>>
    ELSE IF StrLess(s, Head(sorted)) THEN <<s>> \o sorted
    ELSE <<Head(sorted)>> \o InsertSorted(Tail(sorted), s)

RECURSIVE SortStrings(_)
SortStrings(list) ==
    IF Len(list) = 0 THEN <<>>
    ELSE InsertSorted(SortStrings(Tail(list)), Head(list))

NoAnalysis == [State |-> "none"]

\* The loop of AnalyzeLabels over periodLabels; counts[id] is what
\* GetMessagesWithLabel(id) returns: a number of message ids, or -1 for an error.
AnalysisTransformations(periodLabels, counts) ==
    LET eligible == { i \in DOMAIN periodLabels :
                        ~ParseLabelHierarchy(periodLabels[i].Name).IsNil }
    IN  [ name \in { periodLabels[i].Name : i \in eligible } |->
            LET label == CHOOSE l \in Range(periodLabels) : l.Name = name
            IN  [ParseLabelHierarchy(name) EXCEPT
                    !.OriginalID = label.Id,
                    !.MessageCount = counts[label.Id]] ]

RECURSIVE SumCounts(_, _)
SumCounts(transformations, names) ==
    IF names = {} THEN 0
    ELSE LET n == CHOOSE x \in names : TRUE
         IN  transformations[n].MessageCount + SumCounts(transformations, names \ {n})

\* A variant that assigns the count of each label instead of adding it.
TotalMessagesLoopAssign(periodLabels, counts) ==
    IF Len(periodLabels) = 0 THEN 0
    ELSE counts[periodLabels[Len(periodLabels)].Id]

\* totalMessages += len(messageIDs), for every label of periodLabels that
\* ParseLabelHierarchy accepts.
RECURSIVE TotalMessagesLoop(_, _)
TotalMessagesLoop(periodLabels, counts) ==
    IF Len(periodLabels) = 0 THEN 0
    ELSE (IF ParseLabelHierarchy(Head(periodLabels).Name).IsNil THEN 0
          ELSE counts[Head(periodLabels).Id])
         + TotalMessagesLoop(Tail(periodLabels), counts)

\* The remote calls AnalyzeLabels issues: the listing, and the message listing
\* of each label it analyses.
AnalyzeLabelsCalls(labels, listFails) ==
    {"labels.list"} \cup
    (IF ~listFails /\ Len(FindPeriodSeparatedLabels(labels)) > 0
     THEN {"messages.list"} ELSE {})

\* The labels whose messages AnalyzeLabels lists, and what the listings may
\* answer: a number of messages out of `values`, -1 standing for an error.  No
\* message is listed when the label listing failed.
CountInputs(labels, listFails, values) ==
    IF listFails THEN { [ id \in {} |-> 0 ] }
    ELSE [ { l.Id : l \in Range(FindPeriodSeparatedLabels(labels)) } -> values ]

\* The transformations of the labels of the account before their messages are
\* counted: names, parts, parents and identities.
NamedTransformations(labels) ==
    LET periodLabels == FindPeriodSeparatedLabels(labels)
    IN  AnalysisTransformations(periodLabels,
            [ id \in { l.Id : l \in Range(periodLabels) } |-> 0 ])

\* requiredParents after sort.Strings, for every order in which
\* GetAllRequiredParents may return them; the parents depend on the names only.
SortedRequiredParents(labels) ==
    { SortStrings(requiredParents) :
      requiredParents \in GetAllRequiredParents(NamedTransformations(labels)) }

\* The value AnalyzeLabels returns, given what the remote calls answer and the
\* sorted list of required parents.
AnalyzeLabelsResult(labels, listFails, counts, sorted) ==
    LET periodLabels == FindPeriodSeparatedLabels(labels)
        transformations == AnalysisTransformations(periodLabels, counts)
    IN  IF listFails THEN [State |-> "error", Cause |-> "list"]
        ELSE IF \E n \in DOMAIN transformations : transformations[n].MessageCount < 0
        THEN [State |-> "error", Cause |-> "count"]
        ELSE [State |-> "ok",
              PeriodLabels |-> periodLabels,
              Transformations |-> transformations,
              RequiredParents |-> sorted,
              TotalMessages |-> TotalMessagesLoop(periodLabels, counts)]

\* The values AnalyzeLabels may return for one listing, given what the remote
\* calls answer.
AnalyzeLabelsResults(labels, listFails, counts) ==
    { AnalyzeLabelsResult(labels, listFails, counts, sorted) :
      sorted \in SortedRequiredParents(labels) }

MaxMessages == 1

AnalysisInit ==
    /\ remoteLabels \in { S \in SUBSET Range(LabelPool) : Cardinality(S) <= MaxLabels }
    /\ analysisPc = "ready"
    /\ analysis = NoAnalysis
    /\ parents = <<>>

AnalysisIdle ==
    /\ remoteLabels = {}
    /\ analysisPc = "idle"
    /\ analysis = NoAnalysis
    /\ parents = <<>>

\* Analyzer.AnalyzeLabels against the account.
AnalyzeLabels ==
    /\ analysisPc = "ready"
    /\ \E sorted \in SortedRequiredParents(remoteLabels), listFails \in BOOLEAN :
          \E counts \in CountInputs(remoteLabels, listFails, -1..MaxMessages) :
             /\ analysis' = AnalyzeLabelsResult(remoteLabels, listFails, counts, sorted)
             /\ calls' = calls \cup AnalyzeLabelsCalls(remoteLabels, listFails)
    /\ analysisPc' = "analysed"
    /\ UNCHANGED <<remoteLabels, parents, conflicts, dryRunResult, parseVars, retryVars,
                   fixVars, moveVars>>

\* The exported GetAllRequiredParents, called on the transformations of an
\* analysis.
CollectRequiredParents ==
    /\ analysisPc = "analysed"
    /\ analysis.State = "ok"
    /\ parents' \in GetAllRequiredParents(analysis.Transformations)
    /\ analysisPc' = "collected"
    /\ UNCHANGED <<remoteLabels, analysis, parseVars, retryVars, opsVars>>

(***************************************************************************)
(* operations.isRetryableError                                             *)
(***************************************************************************)
\* An error value: Api tells a *googleapi.Error (with its Code and Message)
\* from any other error (Message is then the text of err.Error()).
NoError == [IsNil |-> TRUE]

Err429 ==
    [IsNil |-> FALSE, Api |-> TRUE, Code |-> 429,
     Message |-> B(<<"R", "a", "t", "e", " ", "L", "i", "m", "i", "t", " ", "E", "x", "c", "e", "e", "d", "e", "d">>)]
Err500 ==
    [IsNil |-> FALSE, Api |-> TRUE, Code |-> 500,
     Message |-> B(<<"B", "a", "c", "k", "e", "n", "d", " ", "E", "r", "r", "o", "r">>)]
Err502 ==
    [IsNil |-> FALSE, Api |-> TRUE, Code |-> 502,
     Message |-> B(<<"B", "a", "d", " ", "G", "a", "t", "e", "w", "a", "y">>)]
Err503 ==
    [IsNil |-> FALSE, Api |-> TRUE, Code |-> 503,
     Message |-> B(<<"S", "e", "r", "v", "i", "c", "e", " ", "U", "n", "a", "v", "a", "i", "l", "a", "b", "l", "e">>)]
Err504 ==
    [IsNil |-> FALSE, Api |-> TRUE, Code |-> 504,
     Message |-> B(<<"G", "a", "t", "e", "w", "a", "y", " ", "E", "r", "r", "o", "r">>)]
Err501 ==
    [IsNil |-> FALSE, Api |-> TRUE, Code |-> 501,
     Message |-> B(<<"N", "o", "t", " ", "I", "m", "p", "l", "e", "m", "e", "n", "t", "e", "d">>)]
Err403Quota ==
    [IsNil |-> FALSE, Api |-> TRUE, Code |-> 403,
     Message |-> B(<<"Q", "u", "o", "t", "a", " ", "E", "x", "c", "e", "e", "d", "e", "d">>)]
Err403Denied ==
    [IsNil |-> FALSE, Api |-> TRUE, Code |-> 403,
     Message |-> B(<<"P", "e", "r", "m", "i", "s", "s", "i", "o", "n", " ", "d", "e", "n", "i", "e", "d">>)]
Err404 ==
    [IsNil |-> FALSE, Api |-> TRUE, Code |-> 404,
     Message |-> B(<<"N", "o", "t", " ", "F", "o", "u", "n", "d">>)]
Err400Timeout ==
    [IsNil |-> FALSE, Api |-> TRUE, Code |-> 400,
     Message |-> B(<<"R", "e", "q", "u", "e", "s", "t", " ", "T", "i", "m", "e", "o", "u", "t">>)]
Err524Timeout ==
    [IsNil |-> FALSE, Api |-> TRUE, Code |-> 524,
     Message |-> B(<<"A", " ", "t", "i", "m", "e", "o", "u", "t", " ", "o", "c", "c", "u", "r", "r", "e", "d">>)]
ErrNetReset ==
    [IsNil |-> FALSE, Api |-> FALSE, Code |-> 0,
     Message |-> B(<<"r", "e", "a", "d", ":", " ", "c", "o", "n", "n", "e", "c", "t", "i", "o", "n", " ", "r", "e", "s", "e", "t", " ", "b", "y", " ", "p", "e", "e", "r">>)]
ErrEOF ==
    [IsNil |-> FALSE, Api |-> FALSE, Code |-> 0,
     Message |-> B(<<"u", "n", "e", "x", "p", "e", "c", "t", "e", "d", " ", "E", "O", "F">>)]

Err403RateLimit ==
    [IsNil |-> FALSE, Api |-> TRUE, Code |-> 403,
     Message |-> B(<<"U", "s", "e", "r", " ", "R", "a", "t", "e", " ", "L", "i", "m", "i", "t", " ", "E", "x", "c", "e", "e", "d", "e", "d">>)]
Err403Timeout ==
    [IsNil |-> FALSE, Api |-> TRUE, Code |-> 403,
     Message |-> B(<<"F", "o", "r", "b", "i", "d", "d", "e", "n", ":", " ", "s", "e", "s", "s", "i", "o", "n", " ", "t", "i", "m", "e", "o", "u", "t">>)]
Err409 ==
    [IsNil |-> FALSE, Api |-> TRUE, Code |-> 409,
     Message |-> B(<<"L", "a", "b", "e", "l", " ", "n", "a", "m", "e", " ", "e", "x", "i", "s", "t", "s", " ", "o", "r", " ", "c", "o", "n", "f", "l", "i", "c", "t", "s">>)]
ErrTempFailure ==
    [IsNil |-> FALSE, Api |-> FALSE, Code |-> 0,
     Message |-> B(<<"l", "o", "o", "k", "u", "p", ":", " ", "T", "e", "m", "p", "o", "r", "a", "r", "y", " ", "f", "a", "i", "l", "u", "r", "e", " ", "i", "n", " ", "n", "a", "m", "e", " ", "r", "e", "s", "o", "l", "u", "t", "i", "o", "n">>)]

ErrorPool == { Err429, Err500, Err502, Err503, Err504, Err501,
               Err403Quota, Err403Denied, Err404, Err400Timeout,
               Err524Timeout, ErrNetReset, ErrEOF,
               Err403RateLimit, Err403Timeout, Err409, ErrTempFailure }

\* strconv-style decimal text of an integer, as %d prints it.
RECURSIVE ItoaNat(_)
ItoaNat(n) ==
    IF n < 10 THEN <<48 + n>> ELSE ItoaNat(n \div 10) \o <<48 + (n % 10)>>

Itoa(n) == IF n < 0 THEN B(<<"-">>) \o ItoaNat(0 - n) ELSE ItoaNat(n)

\* err.Error(); for a *googleapi.Error the text is "googleapi: Error <code>: <message>".
ErrorText(err) ==
    IF err.IsNil THEN B(<<"<", "n", "i", "l", ">">>)
    ELSE IF err.Api
    THEN B(<<"g", "o", "o", "g", "l", "e", "a", "p", "i", ":", " ", "E", "r", "r", "o", "r", " ">>)
             \o Itoa(err.Code) \o B(<<":", " ">>) \o err.Message
    ELSE err.Message

\* case 429, 500, 502, 503, 504: return true
RetryableCodesWithout504 == {429, 500, 502, 503}

RetryableCodes == {429, 500, 502, 503, 504}

\* A variant of the 403 case that looks for "quota" only.
IsQuotaMessageQuotaOnly(message) ==
    Contains(ToLower(message), B(<<"q", "u", "o", "t", "a">>))

\* case http.StatusForbidden: quota or rate limit in the lower-cased message.
IsQuotaMessage(message) ==
    \/ Contains(ToLower(message), B(<<"q", "u", "o", "t", "a">>))
    \/ Contains(ToLower(message), B(<<"r", "a", "t", "e", " ", "l", "i", "m", "i", "t">>))

\* The network check on the lower-cased text of the error.
IsNetworkText(errStr) ==
    \/ Contains(errStr, B(<<"t", "i", "m", "e", "o", "u", "t">>))
    \/ Contains(errStr, B(<<"c", "o", "n", "n", "e", "c", "t", "i", "o", "n", " ", "r", "e", "s", "e", "t">>))
    \/ Contains(errStr, B(<<"t", "e", "m", "p", "o", "r", "a", "r", "y", " ", "f", "a", "i", "l", "u", "r", "e">>))

isRetryableError(err) ==
    IF err.IsNil THEN FALSE
    ELSE IF err.Api /\ err.Code \in RetryableCodes THEN TRUE
    ELSE IF err.Api /\ err.Code = 403 THEN IsQuotaMessage(err.Message)
    ELSE IsNetworkText(ToLower(ErrorText(err)))

(***************************************************************************)
(* operations.retryWithBackoff                                             *)
(***************************************************************************)
defaultMaxRetries == 3
maxBackoffDelay == 32
jitterMaxMs == 1000

RECURSIVE Pow2(_)
Pow2(n) == IF n <= 0 THEN 1 ELSE 2 * Pow2(n - 1)

\* The values of rand.Intn(jitterMaxMs) the model draws: both ends and the middle.
Jitters == {0, jitterMaxMs \div 2, jitterMaxMs - 1}

\* baseDelay + jitter with no ceiling.
BackoffDelayUncapped(a, jitter) == Pow2(a - 1) * 1000 + jitter

\* The wait before attempt a (a > 0) in milliseconds: baseDelay + jitter, capped
\* at maxBackoffDelay seconds.  Within the bounds of the model 2^(a-1) seconds
\* stays far inside time.Duration's 64 bits.
BackoffDelay(a, jitter) ==
    LET d == Pow2(a - 1) * 1000 + jitter
    IN  IF d > maxBackoffDelay * 1000 THEN maxBackoffDelay * 1000 ELSE d

\* The loop condition: attempt <= o.config.MaxRetries.
LoopConditionStrict(a, m) == a < m

LoopCondition(a, m) == a <= m

\* fmt.Errorf("operation failed after %d retries: %v", MaxRetries, lastErr)
ExhaustedError(m, err) ==
    [IsNil |-> FALSE, Api |-> FALSE, Code |-> 0,
     Message |-> B(<<"o", "p", "e", "r", "a", "t", "i", "o", "n", " ", "f", "a", "i", "l", "e", "d", " ", "a", "f", "t", "e", "r", " ">>)
                     \o Itoa(m) \o B(<<" ", "r", "e", "t", "r", "i", "e", "s", ":", " ">>) \o ErrorText(err)]

\* What the loop body does with the error operation() returned at attempt a:
\* [Done, Result] when retryWithBackoff returns, [Done |-> FALSE] when the loop
\* goes on to attempt a + 1.
AfterOperationBudgetFirst(err, a, m) ==
    IF err.IsNil THEN [Done |-> TRUE, Result |-> NoError]
    ELSE IF a = m THEN [Done |-> TRUE, Result |-> ExhaustedError(m, err)]
    ELSE IF ~isRetryableError(err) THEN [Done |-> TRUE, Result |-> err]
    ELSE IF LoopCondition(a + 1, m) THEN [Done |-> FALSE, Result |-> NoError]
    ELSE [Done |-> TRUE, Result |-> ExhaustedError(m, err)]

AfterOperation(err, a, m) ==
    IF err.IsNil THEN [Done |-> TRUE, Result |-> NoError]
    ELSE IF ~isRetryableError(err) THEN [Done |-> TRUE, Result |-> err]
    ELSE IF a = m THEN [Done |-> TRUE, Result |-> ExhaustedError(m, err)]
    ELSE IF LoopCondition(a + 1, m) THEN [Done |-> FALSE, Result |-> NoError]
    ELSE [Done |-> TRUE, Result |-> ExhaustedError(m, err)]

\* A variant that keeps the first error in lastErr.
LastErrAfterKeepFirst(last, err) == IF last.IsNil THEN err ELSE last

\* lastErr = err
LastErrAfter(last, err) == err

\* The loop is left by `break` or by its condition, and not by a return, when
\* the operation failed with a retryable error; the statement after the loop
\* then builds the error from lastErr.
LeavesLoop(err) == ~err.IsNil /\ isRetryableError(err)

RetryableErrors == { e \in ErrorPool : isRetryableError(e) }
TerminalErrors == { e \in ErrorPool : ~isRetryableError(e) }

\* A call of retryWithBackoff: the configuration (--max-retries takes any
\* integer) and the operation, which fails retryably opFailN times and then
\* succeeds or fails with a terminal error.
RetryInit ==
    /\ maxRetries \in -1..MaxRetriesBound
    /\ opFailN \in 0..MaxFailures
    /\ opFinal \in {NoError} \cup TerminalErrors
    /\ retryPc = "enter"
    /\ attempt = 0
    /\ invocations = 0
    /\ sleeps = 0
    /\ delay = 0
    /\ lastErr = NoError
    /\ lastRetryable = FALSE
    /\ retryResult = NoError
    /\ opErr = NoError

RetryIdle ==
    /\ maxRetries = defaultMaxRetries
    /\ opFailN = 0
    /\ opFinal = NoError
    /\ retryPc = "idle"
    /\ attempt = 0
    /\ invocations = 0
    /\ sleeps = 0
    /\ delay = 0
    /\ lastErr = NoError
    /\ lastRetryable = FALSE
    /\ retryResult = NoError
    /\ opErr = NoError

\* Entry of the loop: attempt := 0 and the first test of the loop condition.
RetryEnter ==
    /\ retryPc = "enter"
    /\ IF LoopCondition(0, maxRetries)
       THEN /\ retryPc' = "invoke"
            /\ UNCHANGED retryResult
       ELSE /\ retryPc' = "done"
            /\ retryResult' = ExhaustedError(maxRetries, lastErr)
    /\ UNCHANGED <<maxRetries, opFailN, opFinal, attempt, invocations, sleeps,
                   delay, lastErr, lastRetryable, opErr, parseVars, analysisVars,
                   opsVars>>

\* if attempt > 0 { ...; time.Sleep(delay) }
Backoff ==
    /\ retryPc = "sleep"
    /\ \E jitter \in Jitters : delay' = BackoffDelay(attempt, jitter)
    /\ sleeps' = sleeps + 1
    /\ retryPc' = "invoke"
    /\ UNCHANGED <<maxRetries, opFailN, opFinal, attempt, invocations, lastErr,
                   lastRetryable, retryResult, opErr, parseVars, analysisVars,
                   opsVars>>

\* err := operation() and the rest of the loop body.
Invoke ==
    /\ retryPc = "invoke"
    /\ \E err \in (IF invocations < opFailN THEN RetryableErrors ELSE {opFinal}) :
          LET next == AfterOperation(err, attempt, maxRetries)
              newLast == IF err.IsNil THEN lastErr ELSE LastErrAfter(lastErr, err)
          IN  /\ lastErr' = newLast
              /\ opErr' = err
              /\ lastRetryable' = (IF err.IsNil THEN lastRetryable
                                   ELSE isRetryableError(err))
              /\ IF next.Done
                 THEN /\ retryPc' = "done"
                      /\ retryResult' = IF LeavesLoop(err)
                                         THEN ExhaustedError(maxRetries, newLast)
                                         ELSE next.Result
                      /\ UNCHANGED attempt
                 ELSE /\ retryPc' = "sleep"
                      /\ attempt' = attempt + 1
                      /\ UNCHANGED retryResult
    /\ invocations' = invocations + 1
    /\ UNCHANGED <<maxRetries, opFailN, opFinal, sleeps, delay,
                   parseVars, analysisVars, opsVars>>

(***************************************************************************)
(* analyzer.CheckConflicts and operations.DryRun                           *)
(***************************************************************************)
\* The remote calls that change the account.
MutatingCalls == {"labels.create", "labels.patch", "labels.delete", "messages.modify"}

\* Lookups of CheckConflicts whose listing call may fail in one run.
MaxLookupFailures == 1

\* Client.LabelExists: the first listed label with that name; when the listing
\* fails the answer is "no such label".
LabelExists(name, labels, listFails) ==
    LET found == SelectSeq(GetAllLabels(labels), LAMBDA l : l.Name = name)
    IN  IF listFails \/ Len(found) = 0 THEN [Exists |-> FALSE]
        ELSE [Exists |-> TRUE, Label |-> Head(found)]

\* The inner loop of CheckConflicts over transformation.RequiredParents; a
\* conflict text is formatted from its kind, the name and the existing id.
\* The listing fails for the names in down.
RECURSIVE ParentConflicts(_, _, _)
ParentConflicts(parentNames, labels, down) ==
    IF Len(parentNames) = 0 THEN <<>>
    ELSE LET found == LabelExists(Head(parentNames), labels, Head(parentNames) \in down)
         IN  (IF found.Exists
              THEN << [Kind |-> "parent", Name |-> Head(parentNames), Id |-> found.Label.Id] >>
              ELSE <<>>)
             \o ParentConflicts(Tail(parentNames), labels, down)

\* The check of the target nested name.
TargetConflict(t, labels, down) ==
    LET found == LabelExists(t.NestedStructure, labels, t.NestedStructure \in down)
    IN  IF found.Exists
        THEN << [Kind |-> "target", Name |-> t.NestedStructure, Id |-> found.Label.Id] >>
        ELSE <<>>

\* The outer loop over the transformations in the order `order` of their keys.
RECURSIVE ConflictsInOrder(_, _, _, _)
ConflictsInOrder(transformations, order, labels, down) ==
    IF Len(order) = 0 THEN <<>>
    ELSE ParentConflicts(transformations[Head(order)].RequiredParents, labels, down)
         \o TargetConflict(transformations[Head(order)], labels, down)
         \o ConflictsInOrder(transformations, Tail(order), labels, down)

\* Every value CheckConflicts may return: the loop ranges over a Go map.
CheckConflictsResults(transformations, labels, down) ==
    { ConflictsInOrder(transformations, order, labels, down) :
      order \in Orders(DOMAIN transformations) }

\* The names CheckConflicts looks up.
LookupNames(transformations) ==
    UNION { Range(transformations[n].RequiredParents)
            \cup {transformations[n].NestedStructure} : n \in DOMAIN transformations }

\* The listing failures of one run of CheckConflicts.
LookupFailures(transformations) ==
    { D \in SUBSET LookupNames(transformations) : Cardinality(D) <= MaxLookupFailures }

\* The remote calls CheckConflicts issues: one listing per lookup.
CheckConflictsCalls(transformations) ==
    IF DOMAIN transformations = {} THEN {} ELSE {"labels.list"}

\* fmt.Errorf("analysis failed: %v", err)
ErrAnalysisFailed ==
    [IsNil |-> FALSE, Api |-> FALSE, Code |-> 0,
     Message |-> B(<<"a", "n", "a", "l", "y", "s", "i", "s", " ", "f", "a", "i", "l", "e", "d">>)]

\* A variant of DryRun that gives up when conflicts were found.
DryRunReturnAbortOnConflict(result, found) ==
    IF result.State = "error" \/ Len(found) > 0 THEN ErrAnalysisFailed ELSE NoError

\* What DryRun returns: the analysis error, and nil in every other case.
DryRunReturn(result, found) ==
    IF result.State = "error" THEN ErrAnalysisFailed ELSE NoError

\* DryRun calls CheckConflicts unless the analysis failed or found no label.
DryRunChecks(result) ==
    result.State = "ok" /\ Len(result.PeriodLabels) > 0

\* What the conflict check of DryRun may return for the labels of the account;
\* a conflict does not depend on the message counts.
DryRunConflicts(labels) ==
    UNION { CheckConflictsResults(NamedTransformations(labels), labels, down) :
            down \in LookupFailures(NamedTransformations(labels)) }

CheckInit ==
    /\ calls = {}
    /\ conflicts = <<>>
    /\ dryRunResult = NoError

\* Analyzer.CheckConflicts on the transformations of an analysis.
CheckConflicts ==
    /\ analysisPc = "analysed"
    /\ analysis.State = "ok"
    /\ \E down \in LookupFailures(analysis.Transformations) :
          conflicts' \in CheckConflictsResults(analysis.Transformations, remoteLabels, down)
    /\ calls' = calls \cup CheckConflictsCalls(analysis.Transformations)
    /\ analysisPc' = "checked"
    /\ UNCHANGED <<remoteLabels, analysis, parents, dryRunResult, parseVars, retryVars,
                   fixVars, moveVars>>

\* Operations.DryRun: the analysis, the conflict check and the display.
DryRun ==
    /\ analysisPc = "ready"
    /\ \E sorted \in SortedRequiredParents(remoteLabels),
          reported \in DryRunConflicts(remoteLabels), listFails \in BOOLEAN :
          \E counts \in CountInputs(remoteLabels, listFails, -1..MaxMessages) :
          \E result \in { AnalyzeLabelsResult(remoteLabels, listFails, counts, sorted) } :
             \E found \in { IF DryRunChecks(result) THEN reported ELSE <<>> } :
                /\ analysis' = result
                /\ conflicts' = found
                /\ dryRunResult' = DryRunReturn(result, found)
                /\ calls' = calls \cup AnalyzeLabelsCalls(remoteLabels, listFails)
                                  \cup (IF DryRunChecks(result)
                                        THEN CheckConflictsCalls(result.Transformations)
                                        ELSE {})
    /\ analysisPc' = "dryrun"
    /\ UNCHANGED <<remoteLabels, parents, parseVars, retryVars, fixVars, moveVars>>

(***************************************************************************)
(* operations.FixAllLabels and operations.processTransformation: the       *)
(* rename-in-place strategy.                                               *)
(***************************************************************************)
defaultRateLimitDelay == 200

MaxFixLabels == 2
MaxFixRetries == 1
MaxFixFailures == 2

\* The values of --rate-limit-delay the model draws (the flag takes any integer).
RateLimitDelays == {0 - 1, 0, defaultRateLimitDelay}

\* What the remote calls of this part answer: a message listing fails or finds
\* one message; a rename fails transiently with an error of FixTransients, and ends
\* with one of FixFinals.
FixCounts == {0 - 1, 1}
FixTransients == {Err429}
FixFinals == {NoError, Err404}

\* withRateLimit: the time slept, in ms.
withRateLimit(d) == IF d > 0 THEN d ELSE 0

\* A whole call of retryWithBackoff, from the test of the loop condition with
\* attempt = a: the operation fails with `transient` while fewer than n calls
\* were made and then returns `final`.  The result, the calls of the operation
\* and the backoff waits made.
RECURSIVE retryWithBackoff(_, _, _, _, _, _)
retryWithBackoff(a, m, n, transient, final, lastE) ==
    IF ~LoopCondition(a, m)
    THEN [Result |-> ExhaustedError(m, lastE), Invocations |-> a,
          Sleeps |-> IF a > 0 THEN a - 1 ELSE 0]
    ELSE LET err == IF a < n THEN transient ELSE final
             next == AfterOperation(err, a, m)
         IN  IF next.Done
             THEN [Result |-> next.Result, Invocations |-> a + 1, Sleeps |-> a]
             ELSE retryWithBackoff(a + 1, m, n, transient, final, err)

\* Client.RenameLabel on the account: the label keeps its identity and its
\* messages and takes the new name.
RenameLabel(labels, id, newName) ==
    { IF l.Id = id THEN [l EXCEPT !.Name = newName] ELSE l : l \in labels }

\* The service refuses a second label of the same name.
NameTaken(labels, id, newName) ==
    \E l \in labels : l.Name = newName /\ l.Id # id

\* fmt.Errorf("target label '%s' already exists (ID: %s). Cannot rename to existing label", ...)
ErrTargetExists ==
    [IsNil |-> FALSE, Api |-> FALSE, Code |-> 0,
     Message |-> B(<<"t", "a", "r", "g", "e", "t", " ", "l", "a", "b", "e", "l", " ", "a", "l", "r", "e", "a", "d", "y", " ", "e", "x", "i", "s", "t", "s">>)]

\* fmt.Errorf("failed to rename label: %v", err)
ErrRenameFailed(err) ==
    [IsNil |-> FALSE, Api |-> FALSE, Code |-> 0,
     Message |-> B(<<"f", "a", "i", "l", "e", "d", " ", "t", "o", " ", "r", "e", "n", "a", "m", "e", " ", "l", "a", "b", "e", "l", ":", " ">>) \o ErrorText(err)]

\* A variant that applies the rate limit whatever the rename returned.
RateLimitCallsAfterAlways(err) == 1

\* The calls of withRateLimit processTransformation makes once the rename has
\* returned err: if err != nil it returns before o.withRateLimit().
RateLimitCallsAfter(err) == IF err.IsNil THEN 1 ELSE 0

NoFix == [Ran |-> FALSE]

\* processTransformation(t) on the account `labels`: the lookup of the target
\* name, the rename under retryWithBackoff and the rate limit.
processTransformation(t, labels, lookupFails, m, n, transient, final, d) ==
    IF LabelExists(t.NestedStructure, labels, lookupFails).Exists
    THEN [Ran |-> TRUE, Transformation |-> t, Before |-> labels, After |-> labels,
          Err |-> ErrTargetExists, Invocations |-> 0, Sleeps |-> 0,
          RateLimitCalls |-> 0, Slept |-> 0]
    ELSE LET answer == IF NameTaken(labels, t.OriginalID, t.NestedStructure) /\ final.IsNil
                       THEN Err409 ELSE final
             run == retryWithBackoff(0, m, n, transient, answer, NoError)
             limited == RateLimitCallsAfter(run.Result)
         IN  [Ran |-> TRUE, Transformation |-> t, Before |-> labels,
              After |-> IF run.Result.IsNil
                        THEN RenameLabel(labels, t.OriginalID, t.NestedStructure)
                        ELSE labels,
              Err |-> IF run.Result.IsNil THEN NoError ELSE ErrRenameFailed(run.Result),
              Invocations |-> run.Invocations, Sleeps |-> run.Sleeps,
              RateLimitCalls |-> limited,
              Slept |-> limited * withRateLimit(d)]

NoRun == [Ran |-> FALSE]

FixRunIdle ==
    /\ fixMode = "none"
    /\ fixName = <<>>
    /\ prevRun = NoRun
    /\ accountBefore = {}
    /\ fixFound = <<>>
    /\ attempts = <<>>
    /\ runCalls = {}

\* What one call of processTransformation(t) may do, over what the remote
\* calls answer: the lookup fails or not, the rename fails transiently n times
\* and then ends with an error of FixFinals.
ProcessOutcomes(t, labels, m, d) ==
    { processTransformation(t, labels, lookupFails, m, n, transient, final, d) :
        lookupFails \in BOOLEAN, n \in 0..MaxFixFailures,
        transient \in FixTransients, final \in FixFinals }

FixInit ==
    /\ rateLimitDelay \in RateLimitDelays
    /\ fixPc = "ready"
    /\ fixQueue = <<>>
    /\ lastFix = NoFix
    /\ processed = 0
    /\ fixReturn = NoError
    /\ fixRun = "once"
    /\ FixRunIdle

\* The command `fix --all` run twice in a row with the default delay.
FixAgainInit ==
    /\ rateLimitDelay = defaultRateLimitDelay
    /\ fixPc = "ready"
    /\ fixQueue = <<>>
    /\ lastFix = NoFix
    /\ processed = 0
    /\ fixReturn = NoError
    /\ fixRun = "first"
    /\ FixRunIdle

FixIdle ==
    /\ rateLimitDelay = defaultRateLimitDelay
    /\ fixPc = "idle"
    /\ fixQueue = <<>>
    /\ lastFix = NoFix
    /\ processed = 0
    /\ fixReturn = NoError
    /\ fixRun = "once"
    /\ FixRunIdle

\* The account and the configuration of a run of `fix`.
FixAccountInit ==
    /\ remoteLabels \in { SystemLabels \cup S : S \in
                            { U \in SUBSET UserLabels : Cardinality(U) <= MaxFixLabels } }
    /\ analysisPc = "idle"
    /\ analysis = NoAnalysis
    /\ parents = <<>>
    /\ maxRetries \in 0..MaxFixRetries
    /\ opFailN = 0
    /\ opFinal = NoError
    /\ retryPc = "idle"
    /\ attempt = 0
    /\ invocations = 0
    /\ sleeps = 0
    /\ delay = 0
    /\ lastErr = NoError
    /\ lastRetryable = FALSE
    /\ retryResult = NoError
    /\ opErr = NoError

\* The user labels of the accounts on which `fix --all` is run twice: no
\* label to fix, one, a label and its child, two unrelated labels, a label
\* whose nested name is taken, and three labels.
FixAgainAccounts ==
    LET pick(ids) == { l \in UserLabels : l.Id \in ids }
    IN  { pick({"Label_6"}), pick({"Label_1"}), pick({"Label_1", "Label_2"}),
          pick({"Label_3", "Label_10"}), pick({"Label_5", "Label_6"}),
          pick({"Label_1", "Label_2", "Label_4"}) }

FixAgainAccountInit ==
    /\ remoteLabels \in { SystemLabels \cup S : S \in FixAgainAccounts }
    /\ analysisPc = "idle"
    /\ analysis = NoAnalysis
    /\ parents = <<>>
    /\ maxRetries \in 0..MaxFixRetries
    /\ opFailN = 0
    /\ opFinal = NoError
    /\ retryPc = "idle"
    /\ attempt = 0
    /\ invocations = 0
    /\ sleeps = 0
    /\ delay = 0
    /\ lastErr = NoError
    /\ lastRetryable = FALSE
    /\ retryResult = NoError
    /\ opErr = NoError

\* A variant of the loops that ends at the first failure.
ContinueAfterStopOnFailure(err) == err.IsNil

\* The loops of FixAllLabels and FixLabel go on to the next transformation
\* after a failure (`continue`) as after a success.
ContinueAfter(err) == TRUE

\* The remote calls one call of processTransformation issues.
ProcessCalls(done) ==
    {"labels.list"} \cup (IF done.Invocations > 0 THEN {"labels.patch"} ELSE {})

\* FixAllLabels up to its loop: the analysis, and the order in which the loop
\* will range over the map of transformations.  Where the command is run
\* twice, the second run begins once the first has returned.
FixAllStart ==
    /\ \/ fixPc = "ready"
       \/ fixPc = "done" /\ fixMode = "all" /\ fixRun = "first"
    /\ fixMode' = "all"
    /\ fixRun' = IF fixPc = "ready" THEN fixRun ELSE "again"
    /\ prevRun' = IF fixPc = "ready" THEN NoRun
                  ELSE [Ran |-> TRUE, Found |-> Len(fixFound),
                        Processed |-> processed, Return |-> fixReturn]
    /\ accountBefore' = remoteLabels
    /\ attempts' = <<>>
    /\ processed' = 0
    /\ lastFix' = NoFix
    /\ \E sorted \in SortedRequiredParents(remoteLabels), listFails \in BOOLEAN :
          \E counts \in CountInputs(remoteLabels, listFails, FixCounts) :
          \E result \in { AnalyzeLabelsResult(remoteLabels, listFails, counts, sorted) } :
             /\ analysis' = result
             /\ calls' = calls \cup AnalyzeLabelsCalls(remoteLabels, listFails)
             /\ runCalls' = AnalyzeLabelsCalls(remoteLabels, listFails)
             /\ IF result.State = "error"
                THEN /\ fixReturn' = ErrAnalysisFailed
                     /\ fixPc' = "done"
                     /\ fixQueue' = <<>>
                ELSE IF DOMAIN result.Transformations = {}
                THEN /\ fixReturn' = NoError
                     /\ fixPc' = "done"
                     /\ fixQueue' = <<>>
                ELSE /\ \E order \in Orders(DOMAIN result.Transformations) :
                           fixQueue' = [ i \in DOMAIN order |-> result.Transformations[order[i]] ]
                     /\ fixPc' = "running"
                     /\ fixReturn' = NoError
    /\ fixFound' = fixQueue'
    /\ UNCHANGED <<remoteLabels, analysisPc, parents, conflicts, dryRunResult,
                   rateLimitDelay, fixName, parseVars, retryVars, moveVars>>

\* One iteration of the loop of FixAllLabels: processTransformation on the
\* next transformation; after the last one FixAllLabels returns nil.
FixAllProcess ==
    /\ fixPc = "running"
    /\ fixMode = "all"
    /\ \E done \in ProcessOutcomes(Head(fixQueue), remoteLabels, maxRetries,
                                     rateLimitDelay) :
              /\ lastFix' = done
              /\ remoteLabels' = done.After
              /\ processed' = IF done.Err.IsNil THEN processed + 1 ELSE processed
              /\ attempts' = Append(attempts, [Id |-> Head(fixQueue).OriginalID,
                                                 Failed |-> ~done.Err.IsNil])
              /\ calls' = calls \cup ProcessCalls(done)
              /\ runCalls' = runCalls \cup ProcessCalls(done)
              /\ fixPc' = IF Len(fixQueue) = 1 \/ ~ContinueAfter(done.Err)
                          THEN "done" ELSE "running"
    /\ fixQueue' = Tail(fixQueue)
    /\ UNCHANGED <<analysisPc, analysis, parents, conflicts, dryRunResult,
                   rateLimitDelay, fixReturn, fixMode, fixName, fixRun, prevRun,
                   accountBefore, fixFound, parseVars, retryVars, moveVars>>

(***************************************************************************)
(* operations.FixLabel and operations.findLabelWithChildren: the fix of    *)
(* one label and its children by renaming in place.                        *)
(***************************************************************************)
\* The names `fix <label>` is given in the model: a parent of two labels, a
\* label with a child, a label alone, a label without a period, the reserved
\* root.
FixNames ==
    { B(<<"A">>), B(<<"A", ".", "B">>), B(<<"C", ".", "D">>), B(<<"Z">>), INBOX }

\* fmt.Errorf("failed to find labels: %v", err)
ErrFindLabels ==
    [IsNil |-> FALSE, Api |-> FALSE, Code |-> 0,
     Message |-> B(<<"f", "a", "i", "l", "e", "d", " ", "t", "o", " ", "f", "i", "n", "d", " ", "l", "a", "b", "e", "l", "s">>)]

\* fmt.Errorf("label '%s' not found or is not period-separated", labelName)
ErrLabelNotFound ==
    [IsNil |-> FALSE, Api |-> FALSE, Code |-> 0,
     Message |-> B(<<"l", "a", "b", "e", "l", " ", "n", "o", "t", " ", "f", "o", "u", "n", "d", " ", "o", "r", " ", "i", "s", " ", "n", "o", "t", " ", "p", "e", "r", "i", "o", "d", "-", "s", "e", "p", "a", "r", "a", "t", "e", "d">>)]

\* A variant that selects the named label only.
MatchesLabelExactOnly(label, name) == label.Name = name

\* label.Name == labelName || strings.HasPrefix(label.Name, labelName + ".")
MatchesLabel(label, name) ==
    label.Name = name \/ HasPrefix(label.Name, name \o <<Dot>>)

\* matchingLabels, in the order of the listing.
MatchingLabels(name, labels) ==
    SelectSeq(FindPeriodSeparatedLabels(labels), LAMBDA l : MatchesLabel(l, name))

\* len(strings.Split(name, "."))
SegmentCount(name) == Len(Split(name, Dot))

\* sort.Slice with the less function on the number of segments: the sort is
\* not stable, so labels with the same number of segments come in any order.
SortBySegments(matching) ==
    { o \in Orders(Range(matching)) :
        \A i, j \in DOMAIN o :
            i < j => ~(SegmentCount(o[j].Name) < SegmentCount(o[i].Name)) }

\* What the message listings of findLabelWithChildren may answer for the
\* matching labels: a number of messages out of `values`, -1 for an error.
MatchCountInputs(name, labels, listFails, values) ==
    IF listFails THEN { [ id \in {} |-> 0 ] }
    ELSE [ { l.Id : l \in Range(MatchingLabels(name, labels)) } -> values ]

\* The second loop of findLabelWithChildren: a label ParseLabelHierarchy
\* rejects is skipped, a failed message listing gives MessageCount = 0.
RECURSIVE MatchTransformations(_, _)
MatchTransformations(sorted, counts) ==
    IF Len(sorted) = 0 THEN <<>>
    ELSE LET label == Head(sorted)
             t == ParseLabelHierarchy(label.Name)
         IN  (IF t.IsNil THEN <<>>
              ELSE << [t EXCEPT !.OriginalID = label.Id,
                                !.MessageCount = IF counts[label.Id] < 0 THEN 0
                                                 ELSE counts[label.Id]] >>)
             \o MatchTransformations(Tail(sorted), counts)

\* findLabelWithChildren(labelName), given what the remote calls answer and
\* the order `sorted` the sort leaves the matching labels in.
findLabelWithChildren(name, labels, listFails, counts, sorted) ==
    IF listFails THEN [Err |-> ErrFindLabels, Transformations |-> <<>>]
    ELSE IF Len(MatchingLabels(name, labels)) = 0
    THEN [Err |-> ErrLabelNotFound, Transformations |-> <<>>]
    ELSE [Err |-> NoError, Transformations |-> MatchTransformations(sorted, counts)]

\* The remote calls findLabelWithChildren issues.
FindLabelCalls(name, labels, listFails) ==
    {"labels.list"} \cup
    (IF ~listFails /\ Len(MatchingLabels(name, labels)) > 0
     THEN {"messages.list"} ELSE {})

\* A variant that returns nil whatever the number of labels.
FixLabelReturnAlwaysNil(found, err) == NoError

\* What FixLabel returns once its transformations are processed: the error
\* of processTransformation if len(transformations) == 1, nil otherwise.
FixLabelReturn(found, err) == IF found = 1 THEN err ELSE NoError

\* FixLabel up to the processing of its transformations.
FixLabelStart ==
    /\ fixPc = "ready"
    /\ fixMode' = "label"
    /\ accountBefore' = remoteLabels
    /\ \E name \in FixNames, listFails \in BOOLEAN :
          \E counts \in MatchCountInputs(name, remoteLabels, listFails, FixCounts),
             sorted \in SortBySegments(MatchingLabels(name, remoteLabels)) :
          \E found \in { findLabelWithChildren(name, remoteLabels, listFails, counts,
                                               sorted) } :
             /\ fixName' = name
             /\ calls' = calls \cup FindLabelCalls(name, remoteLabels, listFails)
             /\ runCalls' = FindLabelCalls(name, remoteLabels, listFails)
             /\ fixQueue' = found.Transformations
             /\ fixFound' = found.Transformations
             /\ fixReturn' = found.Err
             /\ fixPc' = IF Len(found.Transformations) = 0 THEN "done" ELSE "running"
    /\ UNCHANGED <<remoteLabels, analysisVars, conflicts, dryRunResult, rateLimitDelay,
                   lastFix, processed, fixRun, prevRun, attempts, parseVars,
                   retryVars, moveVars>>

\* processTransformation on the next transformation of FixLabel: the only one,
\* whose error FixLabel returns, or one iteration of the loop.
FixLabelProcess ==
    /\ fixPc = "running"
    /\ fixMode = "label"
    /\ \E done \in ProcessOutcomes(Head(fixQueue), remoteLabels, maxRetries,
                                     rateLimitDelay) :
              /\ lastFix' = done
              /\ remoteLabels' = done.After
              /\ processed' = IF done.Err.IsNil THEN processed + 1 ELSE processed
              /\ attempts' = Append(attempts, [Id |-> Head(fixQueue).OriginalID,
                                                 Failed |-> ~done.Err.IsNil])
              /\ calls' = calls \cup ProcessCalls(done)
              /\ runCalls' = runCalls \cup ProcessCalls(done)
              /\ fixReturn' = FixLabelReturn(Len(fixFound), done.Err)
              /\ fixPc' = IF Len(fixQueue) = 1 \/ ~ContinueAfter(done.Err)
                          THEN "done" ELSE "running"
    /\ fixQueue' = Tail(fixQueue)
    /\ UNCHANGED <<analysisVars, conflicts, dryRunResult, rateLimitDelay, fixMode,
                   fixName, fixRun, prevRun, accountBefore, fixFound, parseVars,
                   retryVars, moveVars>>

(***************************************************************************)
(* The create-and-move strategy: FixLabel and processTransformation of the *)
(* operations package kept in client.go.                                   *)
(***************************************************************************)
\* The messages an account may hold, in the order the service lists them.
MessagePool == <<"m1", "m2", "m3">>

NoMessages == [ m \in Range(MessagePool) |-> {} ]

\* Client.GetMessagesWithLabel: the messages that carry the label.
GetMessagesWithLabel(msgs, labelID) ==
    SelectSeq(MessagePool, LAMBDA m : labelID \in msgs[m])

\* Client.CreateLabel on the account: a user label under a fresh identity.
CreateLabel(labels, name) ==
    LET free == SelectSeq(NewIds, LAMBDA id : \A l \in labels : l.Id # id)
    IN  labels \cup { [Id |-> Head(free), Name |-> name, Type |-> "user"] }

\* A variant that removes the label and adds none.
ModifyMessageLabelsRemoveOnly(msgs, messageID, add, remove) ==
    [msgs EXCEPT ![messageID] = @ \ {remove}]

\* Client.ModifyMessageLabels(messageID, [add], [remove]) on the account.
ModifyMessageLabels(msgs, messageID, add, remove) ==
    [msgs EXCEPT ![messageID] = (@ \cup {add}) \ {remove}]

\* Client.DeleteLabel on the account: the label goes, and leaves its messages.
DeleteLabel(labels, labelID) == { l \in labels : l.Id # labelID }

DeleteLabelMessages(msgs, labelID) == [ m \in DOMAIN msgs |-> msgs[m] \ {labelID} ]

\* The errors of processTransformation, by the step that failed.
ErrCreateParent ==
    [IsNil |-> FALSE, Api |-> FALSE, Code |-> 0,
     Message |-> B(<<"f", "a", "i", "l", "e", "d", " ", "t", "o", " ", "c", "r", "e", "a", "t", "e", " ", "p", "a", "r", "e", "n", "t", " ", "l", "a", "b", "e", "l">>)]
ErrCreateNested ==
    [IsNil |-> FALSE, Api |-> FALSE, Code |-> 0,
     Message |-> B(<<"f", "a", "i", "l", "e", "d", " ", "t", "o", " ", "c", "r", "e", "a", "t", "e", " ", "n", "e", "s", "t", "e", "d", " ", "l", "a", "b", "e", "l">>)]
ErrGetMessages ==
    [IsNil |-> FALSE, Api |-> FALSE, Code |-> 0,
     Message |-> B(<<"f", "a", "i", "l", "e", "d", " ", "t", "o", " ", "g", "e", "t", " ", "m", "e", "s", "s", "a", "g", "e", "s", " ", "f", "o", "r", " ", "l", "a", "b", "e", "l">>)]
ErrMoveMessage ==
    [IsNil |-> FALSE, Api |-> FALSE, Code |-> 0,
     Message |-> B(<<"f", "a", "i", "l", "e", "d", " ", "t", "o", " ", "m", "o", "v", "e", " ", "m", "e", "s", "s", "a", "g", "e">>)]
ErrDeleteOriginal ==
    [IsNil |-> FALSE, Api |-> FALSE, Code |-> 0,
     Message |-> B(<<"f", "a", "i", "l", "e", "d", " ", "t", "o", " ", "d", "e", "l", "e", "t", "e", " ", "o", "r", "i", "g", "i", "n", "a", "l", " ", "l", "a", "b", "e", "l">>)]
ErrNotFound ==
    [IsNil |-> FALSE, Api |-> FALSE, Code |-> 0,
     Message |-> B(<<"l", "a", "b", "e", "l", " ", "n", "o", "t", " ", "f", "o", "u", "n", "d", " ", "o", "r", " ", "i", "s", " ", "n", "o", "t", " ", "p", "e", "r", "i", "o", "d", "-", "s", "e", "p", "a", "r", "a", "t", "e", "d">>)]

\* Step 1: for each required parent that LabelExists does not find, CreateLabel;
\* the first failing CreateLabel ends the step.  createFails tells whether the
\* CreateLabel calls of this run fail.
RECURSIVE CreateParents(_, _, _, _)
CreateParents(parentNames, labels, createFails, created) ==
    IF Len(parentNames) = 0 THEN [Ok |-> TRUE, Labels |-> labels, Created |-> created]
    ELSE IF LabelExists(Head(parentNames), labels, FALSE).Exists
    THEN CreateParents(Tail(parentNames), labels, createFails, created)
    ELSE IF createFails THEN [Ok |-> FALSE, Labels |-> labels, Created |-> created]
    ELSE CreateParents(Tail(parentNames), CreateLabel(labels, Head(parentNames)),
                       createFails, Append(created, Head(parentNames)))

\* Step 2: the existing nested label, or a new one.
NestedLabel(t, labels, createFails) ==
    LET found == LabelExists(t.NestedStructure, labels, FALSE)
        after == CreateLabel(labels, t.NestedStructure)
    IN  IF found.Exists
        THEN [Ok |-> TRUE, Labels |-> labels, Label |-> found.Label, Created |-> <<>>]
        ELSE IF createFails THEN [Ok |-> FALSE, Labels |-> labels, Created |-> <<>>]
        ELSE [Ok |-> TRUE, Labels |-> after,
              Label |-> CHOOSE l \in after : l \notin labels,
              Created |-> <<t.NestedStructure>>]

\* A variant of the loop that goes on after a failed ModifyMessageLabels and
\* reports no failure.
RECURSIVE MoveLoopSkipFailures(_, _, _, _, _, _)
MoveLoopSkipFailures(messageIDs, msgs, newID, originalID, modifyFails, attempted) ==
    IF Len(messageIDs) = 0 THEN [Ok |-> TRUE, Messages |-> msgs, Attempted |-> attempted]
    ELSE MoveLoopSkipFailures(Tail(messageIDs),
             IF Head(messageIDs) \in modifyFails THEN msgs
             ELSE ModifyMessageLabels(msgs, Head(messageIDs), newID, originalID),
             newID, originalID, modifyFails, Append(attempted, Head(messageIDs)))

\* Step 3, the loop over messageIDs: ModifyMessageLabels for each message in
\* turn; the first failure returns.  modifyFails holds the messages whose
\* ModifyMessageLabels call fails.
RECURSIVE MoveLoop(_, _, _, _, _, _)
MoveLoop(messageIDs, msgs, newID, originalID, modifyFails, attempted) ==
    IF Len(messageIDs) = 0 THEN [Ok |-> TRUE, Messages |-> msgs, Attempted |-> attempted]
    ELSE IF Head(messageIDs) \in modifyFails
    THEN [Ok |-> FALSE, Messages |-> msgs,
          Attempted |-> Append(attempted, Head(messageIDs))]
    ELSE MoveLoop(Tail(messageIDs),
                  ModifyMessageLabels(msgs, Head(messageIDs), newID, originalID),
                  newID, originalID, modifyFails, Append(attempted, Head(messageIDs)))

\* The slices of messageIDs the loop of step 3 ranges over, by their lengths:
\* one `for ... range messageIDs` over the whole list when it is not empty.
MovePasses(messageIDs) == IF Len(messageIDs) > 0 THEN << Len(messageIDs) >> ELSE <<>>

NoMove == [Ran |-> FALSE]

\* What a run of processTransformation leaves behind when it stops at `stage`.
MoveOutcome(t, stage, err, labels, msgs, created, listed, attempted) ==
    [Ran |-> TRUE, Transformation |-> t, Stage |-> stage, Err |-> err,
     Labels |-> labels, Messages |-> msgs, Created |-> created,
     Listed |-> listed, Passes |-> IF stage \in {"move", "delete", "done"}
                                   THEN MovePasses(listed) ELSE <<>>,
     Attempted |-> attempted]

\* processTransformation(t), create-and-move: parents, nested label, the move
\* of the messages and the deletion of the original label.
processTransformationMove(t, labels, msgs, createFails, listFails, modifyFails, deleteFails) ==
    LET step1 == CreateParents(t.RequiredParents, labels, createFails, <<>>)
        step2 == NestedLabel(t, step1.Labels, createFails)
        created == step1.Created \o step2.Created
        listed == GetMessagesWithLabel(msgs, t.OriginalID)
        step3 == MoveLoop(listed, msgs, step2.Label.Id, t.OriginalID, modifyFails, <<>>)
    IN  IF ~step1.Ok
        THEN MoveOutcome(t, "parents", ErrCreateParent, step1.Labels, msgs,
                         step1.Created, <<>>, <<>>)
        ELSE IF ~step2.Ok
        THEN MoveOutcome(t, "nested", ErrCreateNested, step2.Labels, msgs,
                         created, <<>>, <<>>)
        ELSE IF listFails
        THEN MoveOutcome(t, "list", ErrGetMessages, step2.Labels, msgs,
                         created, <<>>, <<>>)
        ELSE IF ~step3.Ok
        THEN MoveOutcome(t, "move", ErrMoveMessage, step2.Labels, step3.Messages,
                         created, listed, step3.Attempted)
        ELSE IF deleteFails
        THEN MoveOutcome(t, "delete", ErrDeleteOriginal, step2.Labels, step3.Messages,
                         created, listed, step3.Attempted)
        ELSE MoveOutcome(t, "done", NoError,
                         DeleteLabel(step2.Labels, t.OriginalID),
                         DeleteLabelMessages(step3.Messages, t.OriginalID),
                         created, listed, step3.Attempted)

\* The entries of createLog for the names created in one step.
Logged(names, step) == [ i \in DOMAIN names |-> [Name |-> names[i], Step |-> step] ]

\* The messages of the account: the first k messages carry one of its labels.
MessagesInit(labels) ==
    { NoMessages } \cup
    { [ m \in Range(MessagePool) |->
          IF \E i \in 1..k : MessagePool[i] = m THEN {l.Id} ELSE {} ] :
      l \in labels, k \in 1..Len(MessagePool) }

MoveInit ==
    /\ labelMessages \in MessagesInit(remoteLabels)
    /\ movePc = "ready"
    /\ moveRun = NoMove
    /\ moveReturn = NoError
    /\ moveMode = "none"
    /\ moveQueue = <<>>
    /\ moveBefore = [Labels |-> remoteLabels, Messages |-> labelMessages]
    /\ createLog = <<>>

MoveIdle ==
    /\ labelMessages = NoMessages
    /\ movePc = "idle"
    /\ moveRun = NoMove
    /\ moveReturn = NoError
    /\ moveMode = "none"
    /\ moveQueue = <<>>
    /\ moveBefore = [Labels |-> {}, Messages |-> NoMessages]
    /\ createLog = <<>>

MoveAccountInit ==
    /\ remoteLabels \in { S \in SUBSET Range(LabelPool) : Cardinality(S) <= MaxFixLabels }
    /\ analysisPc = "idle"
    /\ analysis = NoAnalysis
    /\ parents = <<>>

\* The user labels of the accounts on which whole runs of the create-and-move
\* strategy are followed: a label with two ancestors alone, with its first
\* ancestor present, with a label whose nested name is its second ancestor,
\* with an unrelated label, and a label whose nested name is taken.
MoveRunAccounts ==
    LET pick(ids) == { l \in UserLabels : l.Id \in ids }
    IN  { pick({}), pick({"Label_2"}), pick({"Label_2", "Label_9"}),
          pick({"Label_1", "Label_2"}), pick({"Label_2", "Label_3"}),
          pick({"Label_5", "Label_6"}) }

MoveRunsAccountInit ==
    /\ remoteLabels \in { SystemLabels \cup S : S \in MoveRunAccounts }
    /\ analysisPc = "idle"
    /\ analysis = NoAnalysis
    /\ parents = <<>>

\* What GetMessagesWithLabel answers to AnalyzeLabels: the number of messages
\* of each label, or an error for all.
MoveCounts(labels, msgs, countFails) ==
    [ id \in { l.Id : l \in Range(FindPeriodSeparatedLabels(labels)) } |->
        IF countFails THEN 0 - 1 ELSE Len(GetMessagesWithLabel(msgs, id)) ]

\* FixLabel(name) of the create-and-move strategy: the analysis, the lookup of
\* the transformation and processTransformation.
FixLabelMove ==
    /\ movePc = "ready"
    /\ \E label \in remoteLabels, sorted \in SortedRequiredParents(remoteLabels),
          analysisFails \in {"none", "list", "count"} :
          \E result \in { AnalyzeLabelsResult(remoteLabels, analysisFails = "list",
                              IF analysisFails = "list" THEN <<>>
                              ELSE MoveCounts(remoteLabels, labelMessages,
                                              analysisFails = "count"),
                              sorted) } :
             /\ analysis' = result
             /\ IF result.State = "error"
                THEN /\ moveReturn' = ErrAnalysisFailed
                     /\ calls' = calls \cup AnalyzeLabelsCalls(remoteLabels, analysisFails = "list")
                     /\ UNCHANGED <<remoteLabels, labelMessages, moveRun, createLog>>
                ELSE IF label.Name \notin DOMAIN result.Transformations
                THEN /\ moveReturn' = ErrNotFound
                     /\ calls' = calls \cup AnalyzeLabelsCalls(remoteLabels, FALSE)
                     /\ UNCHANGED <<remoteLabels, labelMessages, moveRun, createLog>>
                ELSE \E createFails, listFails, deleteFails \in BOOLEAN,
                        modifyFails \in SUBSET Range(MessagePool) :
                        \E run \in { processTransformationMove(
                                         result.Transformations[label.Name], remoteLabels,
                                         labelMessages, createFails, listFails,
                                         modifyFails, deleteFails) } :
                           /\ moveRun' = run
                           /\ moveReturn' = run.Err
                           /\ remoteLabels' = run.Labels
                           /\ labelMessages' = run.Messages
                           /\ createLog' = createLog \o Logged(run.Created, "transformation")
                           /\ calls' = calls \cup AnalyzeLabelsCalls(remoteLabels, FALSE)
                                  \cup {"labels.list"}
                                  \cup (IF Len(run.Created) > 0 \/ run.Stage \in {"parents", "nested"}
                                        THEN {"labels.create"} ELSE {})
                                  \cup (IF run.Stage \notin {"parents", "nested"}
                                        THEN {"messages.list"} ELSE {})
                                  \cup (IF Len(run.Attempted) > 0
                                        THEN {"messages.modify"} ELSE {})
                                  \cup (IF run.Stage \in {"delete", "done"}
                                        THEN {"labels.delete"} ELSE {})
    /\ movePc' = "done"
    /\ moveMode' = "label"
    /\ UNCHANGED <<analysisPc, parents, conflicts, dryRunResult, moveQueue, moveBefore,
                   parseVars, retryVars, fixVars>>

\* The remote calls one call of the create-and-move processTransformation
\* issues.
MoveCalls(run) ==
    {"labels.list"}
    \cup (IF Len(run.Created) > 0 \/ run.Stage \in {"parents", "nested"}
          THEN {"labels.create"} ELSE {})
    \cup (IF run.Stage \notin {"parents", "nested"} THEN {"messages.list"} ELSE {})
    \cup (IF Len(run.Attempted) > 0 THEN {"messages.modify"} ELSE {})
    \cup (IF run.Stage \in {"delete", "done"} THEN {"labels.delete"} ELSE {})

\* Step 1 of FixAllLabels: for each required parent, in the sorted order of the
\* analysis, CreateLabel unless LabelExists finds it; a failed CreateLabel is
\* a warning and the loop goes on.  lookupFails tells whether the listings of
\* LabelExists fail, createFails holds the names whose CreateLabel the service
\* fails; the service also refuses a second label of a name.
RECURSIVE CreateAllParents(_, _, _, _, _)
CreateAllParents(parentNames, labels, lookupFails, createFails, created) ==
    IF Len(parentNames) = 0 THEN [Labels |-> labels, Created |-> created]
    ELSE IF LabelExists(Head(parentNames), labels, lookupFails).Exists
    THEN CreateAllParents(Tail(parentNames), labels, lookupFails, createFails, created)
    ELSE IF Head(parentNames) \in createFails
              \/ \E l \in labels : l.Name = Head(parentNames)
    THEN CreateAllParents(Tail(parentNames), labels, lookupFails, createFails, created)
    ELSE CreateAllParents(Tail(parentNames), CreateLabel(labels, Head(parentNames)),
                          lookupFails, createFails, Append(created, Head(parentNames)))

\* What step 1 of FixAllLabels may leave, over what the service answers.
ParentOutcomes(parentNames, labels) ==
    { CreateAllParents(parentNames, labels, lookupFails, createFails, <<>>) :
        lookupFails \in BOOLEAN, createFails \in SUBSET Range(parentNames) }

\* What one call of the create-and-move processTransformation(t) may do, over
\* what the service answers.
MoveOutcomes(t, labels, msgs) ==
    { processTransformationMove(t, labels, msgs, createFails, listFails, modifyFails,
                                deleteFails) :
        createFails \in BOOLEAN, listFails \in BOOLEAN, deleteFails \in BOOLEAN,
        modifyFails \in SUBSET Range(MessagePool) }

\* FixAllLabels of the create-and-move strategy up to its second loop: the
\* analysis, the creation of the required parents, and the order in which
\* the loop will range over the map of transformations.
FixAllMoveStart ==
    /\ movePc = "ready"
    /\ moveMode' = "all"
    /\ \E sorted \in SortedRequiredParents(remoteLabels),
          analysisFails \in {"none", "list", "count"} :
          \E result \in { AnalyzeLabelsResult(remoteLabels, analysisFails = "list",
                              IF analysisFails = "list" THEN <<>>
                              ELSE MoveCounts(remoteLabels, labelMessages,
                                              analysisFails = "count"),
                              sorted) } :
             /\ analysis' = result
             /\ IF result.State = "error"
                THEN /\ moveReturn' = ErrAnalysisFailed
                     /\ movePc' = "done"
                     /\ calls' = calls \cup AnalyzeLabelsCalls(remoteLabels, analysisFails = "list")
                     /\ UNCHANGED <<remoteLabels, moveQueue, createLog>>
                ELSE IF DOMAIN result.Transformations = {}
                THEN /\ moveReturn' = NoError
                     /\ movePc' = "done"
                     /\ calls' = calls \cup AnalyzeLabelsCalls(remoteLabels, FALSE)
                     /\ UNCHANGED <<remoteLabels, moveQueue, createLog>>
                ELSE /\ \E step1 \in ParentOutcomes(result.RequiredParents, remoteLabels) :
                           /\ remoteLabels' = step1.Labels
                           /\ createLog' = createLog \o Logged(step1.Created, "parents")
                     /\ \E order \in Orders(DOMAIN result.Transformations) :
                           moveQueue' = [ i \in DOMAIN order |-> result.Transformations[order[i]] ]
                     /\ calls' = calls \cup AnalyzeLabelsCalls(remoteLabels, FALSE)
                            \cup (IF Len(result.RequiredParents) > 0
                                  THEN {"labels.list", "labels.create"} ELSE {})
                     /\ movePc' = "running"
                     /\ UNCHANGED moveReturn
    /\ UNCHANGED <<analysisPc, parents, conflicts, dryRunResult, labelMessages, moveRun,
                   moveBefore, parseVars, retryVars, fixVars>>

\* One iteration of the second loop of FixAllLabels: processTransformation on
\* the next transformation; after the last one FixAllLabels returns nil.
FixAllMoveProcess ==
    /\ movePc = "running"
    /\ \E run \in MoveOutcomes(Head(moveQueue), remoteLabels, labelMessages) :
          /\ moveRun' = run
          /\ remoteLabels' = run.Labels
          /\ labelMessages' = run.Messages
          /\ createLog' = createLog \o Logged(run.Created, "transformation")
          /\ calls' = calls \cup MoveCalls(run)
    /\ moveQueue' = Tail(moveQueue)
    /\ movePc' = IF Len(moveQueue) = 1 THEN "done" ELSE "running"
    /\ UNCHANGED <<analysisPc, analysis, parents, conflicts, dryRunResult, moveReturn,
                   moveMode, moveBefore, parseVars, retryVars, fixVars>>

(***************************************************************************)
(* Specifications: one per part of the program.                            *)
(***************************************************************************)
InitParse == ParseInit /\ AnalysisIdle /\ RetryIdle /\ CheckInit /\ FixIdle /\ MoveIdle
ParseNext == Parse
SpecParse == InitParse /\ [][ParseNext]_vars

AnalysisNext == AnalyzeLabels \/ CollectRequiredParents \/ CheckConflicts \/ DryRun
InitAnalysis == ParseIdle /\ AnalysisInit /\ RetryIdle /\ CheckInit /\ FixIdle /\ MoveIdle
SpecAnalysis == InitAnalysis /\ [][AnalysisNext]_vars

RetryNext == RetryEnter \/ Backoff \/ Invoke
InitRetry == ParseIdle /\ AnalysisIdle /\ RetryInit /\ CheckInit /\ FixIdle /\ MoveIdle

FixNext == FixAllStart \/ FixAllProcess \/ FixLabelStart \/ FixLabelProcess
InitFix == ParseIdle /\ FixAccountInit /\ CheckInit /\ FixInit /\ MoveIdle
SpecFix == InitFix /\ [][FixNext]_vars

\* `fix --all` run twice on the accounts of FixAgainAccounts.
FixAgainNext == FixAllStart \/ FixAllProcess
InitFixAgain == ParseIdle /\ FixAgainAccountInit /\ CheckInit /\ FixAgainInit /\ MoveIdle
SpecFixAgain == InitFixAgain /\ [][FixAgainNext]_vars

MoveNext == FixLabelMove
InitMove == ParseIdle /\ MoveAccountInit /\ RetryIdle /\ CheckInit /\ FixIdle /\ MoveInit
SpecMove == InitMove /\ [][MoveNext]_vars

\* The runs of the create-and-move strategy, of one label and of all, on the
\* accounts of MoveRunAccounts.
MoveRunsNext == FixLabelMove \/ FixAllMoveStart \/ FixAllMoveProcess
InitMoveRuns ==
    ParseIdle /\ MoveRunsAccountInit /\ RetryIdle /\ CheckInit /\ FixIdle /\ MoveInit
SpecMoveRuns == InitMoveRuns /\ [][MoveRunsNext]_vars
SpecRetry == InitRetry /\ [][RetryNext]_vars

\* One run of the program exercises one of the parts.
Init ==
    \/ InitParse \/ InitAnalysis \/ InitRetry \/ InitFix \/ InitFixAgain
    \/ InitMove \/ InitMoveRuns
Next ==
    \/ ParseNext \/ AnalysisNext \/ RetryNext \/ FixNext \/ FixAgainNext
    \/ MoveNext \/ MoveRunsNext
Spec == Init /\ [][Next]_vars

(***************************************************************************)
(* Properties of ParseLabelHierarchy (checked under SpecParse).            *)
(***************************************************************************)
\* The bytes of s before its first byte c (all of s when c does not occur).
RECURSIVE BeforeFirst(_, _)
BeforeFirst(s, c) ==
    IF Len(s) = 0 \/ Head(s) = c THEN <<>>
    ELSE <<Head(s)>> \o BeforeFirst(Tail(s), c)

DelimiterCount == CountByte(labelName, Dot)

\* The name starts with the reserved root marker, compared case-insensitively.
ReservedRoot ==
    DelimiterCount >= 1 /\ ToUpper(BeforeFirst(labelName, Dot)) = INBOX

Parsed == parsePc = "done"

\* C1: a name with k >= 1 delimiters and no reserved root yields exactly k
\* required ancestors and a nested name that is the '/'-join of k+1 segments,
\* the segments being those the delimiters separate in the name.
C1_AncestorsPerDelimiter ==
    (Parsed /\ DelimiterCount >= 1 /\ ~ReservedRoot) =>
        /\ ~transformation.IsNil
        /\ Len(transformation.RequiredParents) = DelimiterCount
        /\ Len(transformation.HierarchyParts) = DelimiterCount + 1
        /\ Join(transformation.HierarchyParts, Dot) = labelName
        /\ transformation.NestedStructure = Join(transformation.HierarchyParts, Slash)
        /\ CountByte(transformation.NestedStructure, Slash)
               = DelimiterCount + CountByte(labelName, Slash)

C1_Witness ==
    /\ Parsed /\ DelimiterCount = 2 /\ ~ReservedRoot
    /\ Len(transformation.RequiredParents) = 2
    /\ Len(labelName) = 5

\* C2: the result is nil exactly when the name holds no delimiter.
C2_NilIffNoDelimiter ==
    Parsed => (transformation.IsNil <=> DelimiterCount = 0)

C2_Witness ==
    Parsed /\ transformation.IsNil /\ Len(labelName) >= 2

\* C3 (as amended): a leading reserved root, whatever its case, is dropped
\* once: the hierarchy is made of the segments after it, so ROOT.X yields X
\* with no ancestor and ROOT.X.Y yields X/Y with the single ancestor X.
C3_RootDroppedOnce ==
    (Parsed /\ ReservedRoot) =>
        LET rest == Tail(Split(labelName, Dot))
        IN  /\ ~transformation.IsNil
            /\ transformation.HierarchyParts = rest
            /\ Join(<<BeforeFirst(labelName, Dot)>> \o transformation.HierarchyParts,
                    Dot) = labelName
            /\ DelimiterCount = 1 =>
                  /\ transformation.NestedStructure = rest[1]
                  /\ transformation.RequiredParents = <<>>
            /\ DelimiterCount = 2 =>
                  /\ transformation.NestedStructure = rest[1] \o <<Slash>> \o rest[2]
                  /\ transformation.RequiredParents = <<rest[1]>>

C3_Witness ==
    /\ Parsed /\ ReservedRoot /\ DelimiterCount = 2
    /\ BeforeFirst(labelName, Dot) # INBOX
    /\ transformation.NestedStructure = B(<<"a", "/", "b">>)

\* C3 as stated: in addition the root marker is no '/'-segment of the nested
\* name or of an ancestor.
C3_RootNeverAppears ==
    /\ C3_RootDroppedOnce
    /\ (Parsed /\ ReservedRoot) =>
          /\ INBOX \notin Range(Split(transformation.NestedStructure, Slash))
          /\ \A i \in DOMAIN transformation.RequiredParents :
                INBOX \notin Range(Split(transformation.RequiredParents[i], Slash))

\* C4: RequiredParents[i] is the '/'-join of the first i segments (counting
\* from 1), one ancestor fewer than there are segments, shortest first, each
\* a strict prefix of the nested name.
C4_AncestorsArePrefixes ==
    (Parsed /\ ~transformation.IsNil) =>
        LET parts == transformation.HierarchyParts
            req == transformation.RequiredParents
        IN  /\ Len(req) = Len(parts) - 1
            /\ \A i \in DOMAIN req :
                  /\ req[i] = Join(SubSeq(parts, 1, i), Slash)
                  /\ HasPrefix(transformation.NestedStructure, req[i] \o <<Slash>>)
                  /\ Len(req[i]) < Len(transformation.NestedStructure)
            /\ \A i, j \in DOMAIN req : i < j => Len(req[i]) < Len(req[j])

C4_Witness ==
    /\ Parsed /\ ~transformation.IsNil
    /\ Len(transformation.RequiredParents) = 2
    /\ transformation.RequiredParents[2] = B(<<"a", "/", "b">>)

(***************************************************************************)
(* Properties of the aggregated required parents (SpecAnalysis).           *)
(***************************************************************************)
UnionOfRequiredParents(transformations) ==
    UNION { Range(transformations[n].RequiredParents) : n \in DOMAIN transformations }

NoDuplicates(list) == Cardinality(Range(list)) = Len(list)

Analysed == analysisPc \in {"analysed", "collected"} /\ analysis.State = "ok"

StrictlyIncreasing(list) ==
    \A i \in 1..(Len(list) - 1) : StrLess(list[i], list[i + 1])

\* C6: both the RequiredParents of an AnalysisResult and the value returned by
\* the exported GetAllRequiredParents are in strictly increasing order.
C6_AggregateSorted ==
    /\ Analysed => StrictlyIncreasing(analysis.RequiredParents)
    /\ analysisPc = "collected" => StrictlyIncreasing(parents)

(***************************************************************************)
(* Properties of retryWithBackoff and isRetryableError (SpecRetry).        *)
(***************************************************************************)
Min(a, b) == IF a < b THEN a ELSE b

Returned == retryPc = "done"

\* The budget-exhausted failure: the error fmt.Errorf builds after the loop.
IsExhausted(err) ==
    /\ ~err.IsNil
    /\ ~err.Api
    /\ HasPrefix(err.Message, B(<<"o", "p", "e", "r", "a", "t", "i", "o", "n", " ", "f", "a", "i", "l", "e", "d", " ", "a", "f", "t", "e", "r", " ">>))

\* C7: with MaxRetries = M >= 0 and an operation that fails retryably N times
\* and then succeeds, the call makes min(M, N) retries with one wait before
\* each, and fails, with the budget-exhausted error, exactly when N > M.
C7_RetriesAreMinOfBudgetAndFailures ==
    (Returned /\ maxRetries >= 0 /\ opFinal = NoError) =>
        /\ invocations = Min(maxRetries, opFailN) + 1
        /\ sleeps = Min(maxRetries, opFailN)
        /\ IsExhausted(retryResult) <=> opFailN > maxRetries
        /\ retryResult = NoError <=> opFailN <= maxRetries

C7_Witness ==
    /\ Returned /\ opFinal = NoError
    /\ maxRetries = 2 /\ opFailN = 3
    /\ sleeps = 2 /\ IsExhausted(retryResult)

\* C8: once the operation has returned its terminal error, at whatever
\* attempt, the call has returned that very error, with no wait and no
\* invocation after it; on the first attempt that means no retry at all.
C8_TerminalReturnedAtOnce ==
    (opFinal # NoError /\ invocations > opFailN) =>
        /\ Returned
        /\ retryResult = opFinal
        /\ invocations = opFailN + 1
        /\ sleeps = opFailN

C8_Witness ==
    /\ Returned /\ opFinal # NoError /\ retryResult = opFinal
    /\ opFailN = 2 /\ maxRetries = 2 /\ invocations = 3

JustWaited == retryPc = "invoke" /\ attempt >= 1

InJitterInterval(d, a) ==
    Pow2(a - 1) * 1000 <= d /\ d < Pow2(a - 1) * 1000 + jitterMaxMs

\* C9 as stated: the wait before every attempt a >= 1 lies in
\* [2^(a-1), 2^(a-1) + jitterMax) seconds and is at most the ceiling.
C9_DelayInIntervalAlways ==
    JustWaited =>
        /\ InJitterInterval(delay, attempt)
        /\ delay <= maxBackoffDelay * 1000

\* C9 (as amended): the wait never exceeds the ceiling; it lies in
\* [2^(a-1), 2^(a-1) + jitterMax) seconds as long as 2^(a-1) seconds is within
\* the ceiling (a <= 6), and is below 2^(a-1) seconds from then on.
C9_DelayCappedAtCeiling ==
    JustWaited =>
        /\ delay <= maxBackoffDelay * 1000
        /\ Pow2(attempt - 1) <= maxBackoffDelay => InJitterInterval(delay, attempt)
        /\ Pow2(attempt - 1) > maxBackoffDelay => delay < Pow2(attempt - 1) * 1000

C9_Witness ==
    JustWaited /\ attempt = 7 /\ delay = maxBackoffDelay * 1000

Classified == ~lastErr.IsNil

\* C10 as stated: HTTP 429 and every 5xx code is classified retryable.
C10_Every5xxRetryable ==
    (Classified /\ lastErr.Api
        /\ (lastErr.Code = 429 \/ (lastErr.Code >= 500 /\ lastErr.Code <= 599)))
    => lastRetryable

\* C10 (as amended): HTTP 429, 500, 502, 503 and 504 are classified
\* retryable; another 5xx code is retryable only when the text of the error
\* names a timeout, a connection reset or a temporary failure.
C10_ListedCodesRetryable ==
    (Classified /\ lastErr.Api) =>
        /\ lastErr.Code \in {429, 500, 502, 503, 504} => lastRetryable
        /\ (lastErr.Code >= 500 /\ lastErr.Code <= 599
                /\ lastErr.Code \notin {500, 502, 503, 504}) =>
              (lastRetryable <=> IsNetworkText(ToLower(ErrorText(lastErr))))

C10_Witness ==
    /\ Classified /\ lastErr.Api /\ lastErr.Code = 504 /\ lastRetryable
    /\ retryPc = "sleep"

(***************************************************************************)
(* Properties of isRetryableError, continued.                              *)
(***************************************************************************)
\* The text s, compared without regard to case, mentions one of the words.
MentionsAny(s, words) == \E w \in words : Contains(ToLower(s), w)

QuotaWords == { B(<<"q", "u", "o", "t", "a">>), B(<<"r", "a", "t", "e", " ", "l", "i", "m", "i", "t">>) }
TransientWords == { B(<<"t", "i", "m", "e", "o", "u", "t">>), B(<<"c", "o", "n", "n", "e", "c", "t", "i", "o", "n", " ", "r", "e", "s", "e", "t">>), B(<<"t", "e", "m", "p", "o", "r", "a", "r", "y", " ", "f", "a", "i", "l", "u", "r", "e">>) }

Is403(err) == err.Api /\ err.Code = 403
IsRateLimitSignal(err) == err.Api /\ err.Code = 429
Is5xx(err) == err.Api /\ err.Code >= 500 /\ err.Code <= 599
IsQuota403(err) == Is403(err) /\ MentionsAny(err.Message, QuotaWords)
IsNetworkTransient(err) == MentionsAny(ErrorText(err), TransientWords)

\* C11: a 403 error is retryable exactly when its message mentions quota or
\* rate-limit exhaustion (any other 403, a plain permission denial or one whose
\* text mentions a timeout, is terminal), and an error that is neither a 429,
\* nor a 5xx, nor a quota/rate-limit 403, nor a timeout, connection reset or
\* temporary failure by its text is classified terminal.
C11_ForbiddenByMessageElseTerminal ==
    Classified =>
        /\ Is403(lastErr) =>
               (lastRetryable <=> MentionsAny(lastErr.Message, QuotaWords))
        /\ ( ~IsRateLimitSignal(lastErr) /\ ~Is5xx(lastErr)
             /\ ~IsQuota403(lastErr) /\ ~IsNetworkTransient(lastErr) )
               => ~lastRetryable

\* A 403 whose message says "User Rate Limit Exceeded" was retried, and the
\* call ended on a permission denial, returned at once.
C11_Witness ==
    /\ Returned
    /\ invocations >= 2
    /\ sleeps >= 1
    /\ opFinal = Err403Denied
    /\ retryResult = Err403Denied
    /\ ~lastRetryable

(***************************************************************************)
(* Properties of CheckConflicts, DryRun and AnalyzeLabels (checked under   *)
(* SpecAnalysis).                                                          *)
(***************************************************************************)
\* CheckConflicts has run, on its own or inside DryRun.
Checked ==
    \/ analysisPc = "checked"
    \/ analysisPc = "dryrun" /\ DryRunChecks(analysis)

\* A label of the account bears the name under an identity other than the
\* original identity of the transformation t.
ForeignLabel(name, t) ==
    \E l \in remoteLabels : l.Name = name /\ l.Id # t.OriginalID

Reported(kind, name) ==
    \E i \in DOMAIN conflicts : conflicts[i].Kind = kind /\ conflicts[i].Name = name

\* C15 as stated: CheckConflicts reports a conflict for a required ancestor or
\* for the target nested name exactly when a label of the account bears that
\* name under an identity other than the transformation's original identity.
C15_ConflictIffForeignLabel ==
    Checked =>
        \A n \in DOMAIN analysis.Transformations :
            LET t == analysis.Transformations[n]
            IN  /\ \A p \in Range(t.RequiredParents) :
                       Reported("parent", p) <=> ForeignLabel(p, t)
                /\ Reported("target", t.NestedStructure)
                       <=> ForeignLabel(t.NestedStructure, t)

\* C16: CheckConflicts and DryRun issue no create, rename, delete or
\* message-modify call and leave the labels of the account and the labels of
\* its messages as they are; DryRun
\* returns nil whenever the analysis succeeded, whatever conflicts were found,
\* and the analysis result it displays is kept whole.
C16_AdvisoryOnly ==
    /\ [](analysisPc \in {"checked", "dryrun"} =>
            /\ calls \cap MutatingCalls = {}
            /\ (analysisPc = "dryrun" /\ analysis.State = "ok") => dryRunResult.IsNil)
    /\ [][remoteLabels' = remoteLabels /\ labelMessages' = labelMessages]_vars

\* DryRun found a conflict and returned nil.
C16_Witness ==
    /\ analysisPc = "dryrun"
    /\ Len(conflicts) >= 2
    /\ dryRunResult.IsNil
    /\ "labels.list" \in calls

AnalysisRan == analysisPc \in {"analysed", "collected", "checked", "dryrun"}

\* C17 as stated: AnalyzeLabels returns an error only when the enumeration of
\* the labels failed; a failed message-count fetch does not make it fail.
C17_ErrorOnlyWhenListingFails ==
    (AnalysisRan /\ analysis.State = "error") => analysis.Cause = "list"

\* The configured skip-set of reserved names.
SkipSet == { B(<<"I", "N", "B", "O", "X", ".", "S", "e", "n", "t">>) }

\* C18 as stated: the labels that receive a transformation are exactly the
\* user-created labels whose name contains the flat delimiter and is not in
\* the skip-set.
C18_AnalysedSetHonoursSkipSet ==
    (AnalysisRan /\ analysis.State = "ok") =>
        DOMAIN analysis.Transformations
            = { l.Name : l \in { x \in remoteLabels :
                                   /\ x.Type = "user"
                                   /\ CountByte(x.Name, Dot) > 0
                                   /\ x.Name \notin SkipSet } }

\* C19: in every analysis result the total is the sum of the message counts of
\* the transformations, there is one transformation per analysed label (no two
\* share a key), each is filed under its own original name, and its original
\* identity is the identity of the label of the account with that name.
C19_TotalsAndKeys ==
    (AnalysisRan /\ analysis.State = "ok") =>
        LET T == analysis.Transformations
        IN  /\ analysis.TotalMessages = SumCounts(T, DOMAIN T)
            /\ Cardinality(DOMAIN T) = Len(analysis.PeriodLabels)
            /\ \A n \in DOMAIN T :
                   /\ T[n].OriginalLabel = n
                   /\ \E l \in remoteLabels : l.Name = n /\ l.Id = T[n].OriginalID
                   /\ \A l \in remoteLabels : l.Name = n => l.Id = T[n].OriginalID

\* Three labels were analysed, two of them with a message.
C19_Witness ==
    /\ analysisPc = "analysed"
    /\ analysis.State = "ok"
    /\ Cardinality(DOMAIN analysis.Transformations) = 3
    /\ analysis.TotalMessages = 2
    /\ \E n \in DOMAIN analysis.Transformations :
          analysis.Transformations[n].MessageCount = 0

(***************************************************************************)
(* Properties of processTransformation, rename-in-place strategy (checked  *)
(* under SpecFix).                                                         *)
(***************************************************************************)
\* The rename of the last processTransformation succeeded.
RenameSucceeded == lastFix.Ran /\ lastFix.Invocations >= 1 /\ lastFix.Err.IsNil

\* C12: processTransformation applies the inter-call delay exactly once after
\* a rename that succeeded, whether or not the rename was retried, and not at
\* all when no rename was made or when the rename finally failed; the time it
\* waits is Config.RateLimitDelay (nothing for a delay of zero or less), and
\* retryWithBackoff adds no inter-call delay of its own.
C12_DelayOncePerSuccessfulCall ==
    lastFix.Ran =>
        /\ lastFix.RateLimitCalls = (IF RenameSucceeded THEN 1 ELSE 0)
        /\ lastFix.Slept = (IF RenameSucceeded /\ rateLimitDelay > 0
                            THEN rateLimitDelay ELSE 0)
        /\ lastFix.Err.IsNil => RenameSucceeded

\* A rename succeeded at its second attempt and was followed by one delay of
\* 200 ms.
C12_Witness ==
    /\ RenameSucceeded
    /\ lastFix.Invocations = 2
    /\ lastFix.Sleeps = 1
    /\ lastFix.RateLimitCalls = 1
    /\ lastFix.Slept = defaultRateLimitDelay

\* The target nested name or a required ancestor of t is the name of a label
\* of `labels` under an identity other than t's original identity.
ForeignConflictIn(labels, t) ==
    \E name \in Range(t.RequiredParents) \cup {t.NestedStructure} :
        \E l \in labels : l.Name = name /\ l.Id # t.OriginalID

\* C20 as stated: a transformation whose target nested name or one of whose
\* required ancestors exists in the account under a foreign identity is
\* blocked: no rename is issued for it and its label is left as it was.
C20_ConflictBlocksTransformation ==
    (lastFix.Ran /\ ForeignConflictIn(lastFix.Before, lastFix.Transformation)) =>
        /\ lastFix.Invocations = 0
        /\ lastFix.After = lastFix.Before

(***************************************************************************)
(* Properties of the move of the messages, create-and-move strategy        *)
(* (checked under SpecMove).                                               *)
(***************************************************************************)
\* The batch size of the mover.
BatchSize == 2

\* The sizes of the consecutive chunks of n items for the batch size b.
RECURSIVE ChunkSizes(_, _)
ChunkSizes(n, b) ==
    IF n = 0 THEN <<>>
    ELSE IF n <= b THEN <<n>>
    ELSE <<b>> \o ChunkSizes(n - b, b)

IsPrefix(p, q) == Len(p) <= Len(q) /\ \A i \in DOMAIN p : p[i] = q[i]

\* processTransformation reached the move of the messages.
MoveReached == moveRun.Ran /\ moveRun.Stage \in {"move", "delete", "done"}

\* C13 as stated: the message ids are moved in consecutive chunks of the batch
\* size, the last one holding the remainder, in input order.
C13_ConsecutiveChunks ==
    MoveReached =>
        /\ moveRun.Passes = ChunkSizes(Len(moveRun.Listed), BatchSize)
        /\ IsPrefix(moveRun.Attempted, moveRun.Listed)

\* C14 as stated: a message whose reassignment fails does not keep the later
\* messages from being moved: every listed message is attempted and the failure
\* does not end the run.
C14_EveryMessageAttempted ==
    MoveReached =>
        /\ moveRun.Attempted = moveRun.Listed
        /\ moveRun.Stage # "move"

(***************************************************************************)
(* Properties of retryWithBackoff, continued (checked under SpecRetry).    *)
(***************************************************************************)
HasSuffix(s, x) ==
    Len(s) >= Len(x) /\ SubSeq(s, Len(s) - Len(x) + 1, Len(s)) = x

\* C23: when the call gives up because the budget is spent and the last
\* failure was still retryable, it returns the budget-exhausted error, whose
\* text ends with the text of the error the last call of the operation
\* returned, whatever the earlier calls returned.
C23_ExhaustedCarriesLastCause ==
    (Returned /\ invocations >= 1 /\ ~opErr.IsNil /\ isRetryableError(opErr)) =>
        /\ IsExhausted(retryResult)
        /\ HasSuffix(retryResult.Message, B(<<":", " ">>) \o ErrorText(opErr))
        /\ invocations = maxRetries + 1

\* Three attempts failed retryably, the last with a connection reset, and the
\* exhausted error carries the connection reset.
C23_Witness ==
    /\ Returned
    /\ maxRetries = 2
    /\ invocations = 3
    /\ opErr = ErrNetReset
    /\ IsExhausted(retryResult)
    /\ HasSuffix(retryResult.Message, ErrNetReset.Message)

\* C24 as stated: whatever integer MaxRetries holds, the operation is invoked
\* at least once, the first time with no wait before it, and a failure is
\* returned only if some call of the operation failed.
C24_InvokedAtLeastOnce ==
    /\ Returned => invocations >= 1
    /\ (Returned /\ ~retryResult.IsNil) => ~lastErr.IsNil
    /\ invocations = 0 => sleeps = 0

(***************************************************************************)
(* Properties of the fix by renaming in place, continued (checked under    *)
(* SpecFix; C29 under SpecFixAgain).                                       *)
(***************************************************************************)
AttemptedIds == { attempts[i].Id : i \in DOMAIN attempts }

FailedAttempts == { i \in DOMAIN attempts : attempts[i].Failed }

AnalysedIds ==
    IF analysis.State = "ok"
    THEN { analysis.Transformations[n].OriginalID : n \in DOMAIN analysis.Transformations }
    ELSE {}

\* C21: FixAllLabels calls processTransformation on every transformation of
\* the analysis exactly once, whatever the other calls returned (a conflict,
\* a terminal error, an exhausted retry budget); it returns an error exactly
\* when the analysis failed, and the count it prints is the number of
\* transformations less those that failed.
C21_EveryTransformationAttemptedOnce ==
    fixMode = "all" =>
        /\ \A i, j \in DOMAIN attempts : attempts[i].Id = attempts[j].Id => i = j
        /\ AttemptedIds \subseteq AnalysedIds
        /\ processed = Len(attempts) - Cardinality(FailedAttempts)
        /\ fixPc = "done" =>
              /\ AttemptedIds = AnalysedIds
              /\ processed + Cardinality(FailedAttempts) = Cardinality(AnalysedIds)
              /\ ~fixReturn.IsNil <=> analysis.State = "error"

\* FixAllLabels returned nil after the first of two transformations failed
\* and the second was renamed.
C21_Witness ==
    /\ fixMode = "all"
    /\ fixPc = "done"
    /\ Len(attempts) = 2
    /\ attempts[1].Failed
    /\ ~attempts[2].Failed
    /\ processed = 1
    /\ fixReturn.IsNil

\* The user labels of `labels` with a period in their name whose name is
\* `name` or begins with `name` and a period.
SelectedLabels(name, labels) ==
    { l \in labels :
        /\ l.Type = "user"
        /\ CountByte(l.Name, Dot) > 0
        /\ \/ l.Name = name
           \/ /\ Len(l.Name) > Len(name)
              /\ \A i \in 1..Len(name) : l.Name[i] = name[i]
              /\ l.Name[Len(name) + 1] = Dot }

FoundLabelListing == fixMode = "label" /\ fixReturn # ErrFindLabels

\* C25: FixLabel takes exactly the user labels with a period whose name is
\* the given name or begins with the given name and a period, and processes
\* them in the order found, which is by non-decreasing number of segments with
\* the named label first; when no label matches it returns the not-found error
\* and issues no mutating call.
C25_FixLabelSelectionAndOrder ==
    FoundLabelListing =>
        LET selected == SelectedLabels(fixName, accountBefore)
        IN  /\ { t.OriginalID : t \in Range(fixFound) } = { l.Id : l \in selected }
            /\ Len(fixFound) = Cardinality(selected)
            /\ \A i, j \in DOMAIN fixFound :
                  i < j => CountByte(fixFound[i].OriginalLabel, Dot)
                              <= CountByte(fixFound[j].OriginalLabel, Dot)
            /\ \A i \in DOMAIN fixFound :
                  fixFound[i].OriginalLabel = fixName => i = 1
            /\ Len(attempts) <= Len(fixFound)
            /\ \A i \in DOMAIN attempts : attempts[i].Id = fixFound[i].OriginalID
            /\ fixPc = "done" => Len(attempts) = Len(fixFound)
            /\ selected = {} =>
                  /\ fixPc = "done"
                  /\ fixReturn = ErrLabelNotFound
                  /\ runCalls \cap MutatingCalls = {}
                  /\ remoteLabels = accountBefore

\* `fix A.B` on an account with A.B and A.B.C has processed A.B and then A.B.C.
C25_Witness ==
    /\ fixMode = "label"
    /\ fixPc = "done"
    /\ fixName = B(<<"A", ".", "B">>)
    /\ Len(attempts) = 2
    /\ attempts[1].Id = "Label_1"
    /\ attempts[2].Id = "Label_2"

\* C28: FixLabel returns the error of processTransformation when one label
\* matched and its transformation failed, and nil when two or more matched,
\* also when every one of them failed.
C28_ErrorOnlyForSingleLabel ==
    (fixMode = "label" /\ fixPc = "done" /\ Len(fixFound) >= 1) =>
        /\ Len(fixFound) = 1 => /\ fixReturn = lastFix.Err
                                /\ fixReturn.IsNil <=> ~attempts[1].Failed
        /\ Len(fixFound) >= 2 => fixReturn.IsNil

\* Two labels matched, both transformations failed, and FixLabel returned nil.
C28_Witness ==
    /\ fixMode = "label"
    /\ fixPc = "done"
    /\ Len(fixFound) = 2
    /\ Cardinality(FailedAttempts) = 2
    /\ fixReturn.IsNil

EveryRenameSucceeded(found, done, return) == return.IsNil /\ done = found

\* C29: no nested name has a period; after a run of FixAllLabels in which
\* every rename succeeded no user label has a period in its name; and a run
\* of FixAllLabels that follows such a run finds no transformation, issues no
\* mutating call and leaves the account as it is.
C29_SecondRunFindsNothing ==
    /\ \A i \in DOMAIN fixFound : CountByte(fixFound[i].NestedStructure, Dot) = 0
    /\ (fixMode = "all" /\ fixPc = "done"
            /\ EveryRenameSucceeded(Len(fixFound), processed, fixReturn)) =>
          \A l \in remoteLabels : l.Type = "user" => CountByte(l.Name, Dot) = 0
    /\ (fixRun = "again"
            /\ EveryRenameSucceeded(prevRun.Found, prevRun.Processed, prevRun.Return)) =>
          /\ fixPc = "done"
          /\ analysis.State = "ok" => DOMAIN analysis.Transformations = {}
          /\ Len(fixFound) = 0
          /\ runCalls \cap MutatingCalls = {}
          /\ remoteLabels = accountBefore

\* A second run after a run that renamed both labels of the account: the
\* analysis succeeded and found nothing.
C29_Witness ==
    /\ fixRun = "again"
    /\ prevRun.Found = 2
    /\ prevRun.Processed = 2
    /\ analysis.State = "ok"
    /\ fixPc = "done"

(***************************************************************************)
(* Properties of the runs of the create-and-move strategy (checked under   *)
(* SpecMoveRuns).                                                          *)
(***************************************************************************)
\* The nested name of the label named `name`.
NestedName(name) == ParseLabelHierarchy(name).NestedStructure

AncestorPaths(path) ==
    { SubSeq(path, 1, i - 1) : i \in { j \in 1..Len(path) : path[j] = Slash } }

ExistedBefore(name) == \E l \in moveBefore.Labels : l.Name = name

CreatedBefore(name, i) == \E j \in 1..(i - 1) : createLog[j].Name = name

\* C26 as stated: FixAllLabels creates the aggregated required parents in
\* sorted order before it processes a transformation, so that every ancestor
\* path is created or found existing before any path it is a strict prefix of
\* and before any nested label; a parent that exists is not created again.
C26_ParentsBeforeDescendants ==
    moveMode = "all" =>
        /\ \A i \in DOMAIN createLog : \A q \in AncestorPaths(createLog[i].Name) :
              ExistedBefore(q) \/ CreatedBefore(q, i)
        /\ \A i \in DOMAIN createLog :
              createLog[i].Step = "transformation" =>
                  createLog[i].Name \notin Range(analysis.RequiredParents)
        /\ \A i, j \in DOMAIN createLog :
              (i < j /\ createLog[i].Step = "parents" /\ createLog[j].Step = "parents") =>
                  StrLess(createLog[i].Name, createLog[j].Name)
        /\ \A i \in DOMAIN createLog :
              ~ExistedBefore(createLog[i].Name) /\ ~CreatedBefore(createLog[i].Name, i)

OriginalDeleted ==
    \A l \in remoteLabels : l.Id # moveRun.Transformation.OriginalID

\* C27: processTransformation deletes the original label only when every
\* message listed under it has been reassigned to the nested label; when the
\* creation of a parent or of the nested label, the listing of the messages or
\* a reassignment fails, the original label stays.
C27_DeleteOnlyAfterAllMoved ==
    moveRun.Ran =>
        /\ moveRun.Stage \in {"parents", "nested", "list", "move"} => ~OriginalDeleted
        /\ ~moveRun.Err.IsNil => ~OriginalDeleted
        /\ OriginalDeleted =>
              /\ moveRun.Attempted = moveRun.Listed
              /\ \A m \in DOMAIN labelMessages :
                    moveRun.Transformation.OriginalID \in moveBefore.Messages[m] =>
                        /\ \E i \in DOMAIN moveRun.Listed : moveRun.Listed[i] = m
                        /\ \E l \in remoteLabels :
                              /\ l.Name = moveRun.Transformation.NestedStructure
                              /\ l.Id \in labelMessages[m]

\* The original label was deleted after its three messages were reassigned.
C27_Witness ==
    /\ moveRun.Ran
    /\ moveRun.Stage = "done"
    /\ Len(moveRun.Listed) = 3
    /\ OriginalDeleted

====
